---------------------------- MODULE Spec2Model ----------------------------
(***************************************************************************)
(* State-machine model of the Tandonia REST backend (api/index.js): token  *)
(* verification, the checklist write transaction and its managed-backend   *)
(* fallback, the checklist readers, the species, grid-cell and news        *)
(* listings, the CORS layer and the error handler. Where the standalone    *)
(* server file tandonia_backend.js handles a route differently, its        *)
(* handler is modelled beside the one of api/index.js and the variable     *)
(* backend says which of the two files is running.                         *)
(*                                                                         *)
(* Store semantics assumed of the external collaborators:                  *)
(*  - the relational store runs each borrowed connection's statements in   *)
(*    one transaction between BEGIN and COMMIT/ROLLBACK; pool.query reads  *)
(*    see committed rows only; a failed COMMIT commits nothing; a session  *)
(*    whose ROLLBACK cannot be delivered is discarded by the server;       *)
(*  - the managed backend inserts one row per insert call or reports an    *)
(*    error and inserts nothing;                                           *)
(*  - the two stores are separate: a checklist written to one is not in    *)
(*    the other.                                                           *)
(***************************************************************************)
EXTENDS Integers, Sequences, FiniteSets, TLC

\* ------------------------------------------------------------------------
\* JavaScript values that reach the handlers in a JSON body
\* ------------------------------------------------------------------------
Undefined == [t |-> "undefined", n |-> 0, s |-> ""]
Num(k)    == [t |-> "number", n |-> k, s |-> ""]
Str(x)    == [t |-> "string", n |-> 0, s |-> x]
Bool(b)   == [t |-> "boolean", n |-> IF b THEN 1 ELSE 0, s |-> ""]

\* !!v
Truthy(v) ==
    CASE v.t = "number" -> v.n # 0
      [] v.t = "string" -> v.s # ""
      [] v.t = "boolean" -> v.n = 1
      [] OTHER -> FALSE

\* The strings of the model that Number() reads as a number
NumericStrings == {"20", "3", ""}

StringValue(x) ==
    CASE x = "20" -> 20
      [] x = "3" -> 3
      [] OTHER -> 0

\* Number.isNaN(Number(v))
IsNaNNumber(v) ==
    CASE v.t = "number" -> FALSE
      [] v.t = "string" -> v.s \notin NumericStrings
      [] OTHER -> TRUE

\* Number(v) where it is not NaN
ToNumber(v) ==
    CASE v.t = "number" -> v.n
      [] v.t = "string" -> StringValue(v.s)
      [] OTHER -> 0

\* v > 0 as JavaScript compares
GreaterThanZero(v) == ~IsNaNNumber(v) /\ ToNumber(v) > 0

\* ------------------------------------------------------------------------
\* Request inputs
\* ------------------------------------------------------------------------
Users == {"u1", "u2"}
Req == {"r1", "r2"}

NoToken == [present |-> FALSE, sb |-> "reject", jwt |-> FALSE, uid |-> ""]

\* A bearer token: what the identity provider answers for it (sb), whether
\* it verifies against JWT_SECRET (jwt), and the id its payload carries.
Tokens ==
    {NoToken}
    \cup [present : {TRUE}, sb : {"ok", "reject", "throw"}, jwt : BOOLEAN, uid : Users]
    \cup {[present |-> TRUE, sb |-> "reject", jwt |-> TRUE, uid |-> ""]}

GoodTokens == {t \in Tokens : t.present /\ t.sb = "ok" /\ t.jwt /\ t.uid # ""}

Coord(a, b) == [lat |-> Num(a), lng |-> Num(b)]
P1 == Coord(50, 4)
P2 == Coord(51, 5)
P3 == Coord(52, 6)
P4 == Coord(53, 7)
NoLng == [lat |-> Num(50), lng |-> Undefined]

Empty == [k \in {} |-> P1]

\* locations objects: 0 to 3 habitats, the urban alias alone, with
\* anthropogenous, and a habitat whose coordinate lacks lng
LocMaps ==
    { Empty,
      "forest" :> P1,
      ("forest" :> P1) @@ ("swamp" :> P2),
      ("forest" :> P1) @@ ("swamp" :> P2) @@ ("anthropogenous" :> P3),
      "urban" :> P4,
      ("urban" :> P4) @@ ("anthropogenous" :> P3),
      ("forest" :> P1) @@ ("swamp" :> P2) @@ ("urban" :> P4),
      "swamp" :> NoLng }

SpeciesNames == <<"Arion ater", "Limax maximus">>

Entry(name, c) == [name |-> name, count |-> c]

\* species objects as their Object.entries sequence (insertion order)
SpeciesMaps ==
    { << >>,
      <<Entry("Arion ater", Num(3))>>,
      <<Entry("Arion ater", Num(0))>>,
      <<Entry("Limax maximus", Num(2)), Entry("Arion ater", Num(-1))>>,
      <<Entry("Limax maximus", Str("3")), Entry("Arion ater", Num(1))>> }

Body(g, l, s, t) == [gridCellId |-> g, locations |-> l, species |-> s, timeSpent |-> t]

GridCellIds == {Str("cell-7"), Str(""), Undefined}
TimeSpents == {Num(15), Str("20"), Undefined, Num(0), Num(-5), Str("abc")}

\* bodies of the input-rich sequential specification
Bodies ==
    {Body(Str("cell-7"), l, s, Num(15)) : l \in LocMaps, s \in SpeciesMaps}
    \cup {Body(g, ("forest" :> P1), <<Entry("Arion ater", Num(3))>>, t) :
            g \in GridCellIds, t \in TimeSpents}

\* bodies of the concurrent specification
ConcBodies ==
    { Body(Str("cell-7"), ("forest" :> P1) @@ ("urban" :> P4),
           <<Entry("Limax maximus", Num(2)), Entry("Arion ater", Num(0))>>, Num(15)),
      Body(Str("cell-8"), ("swamp" :> P2), <<Entry("Arion ater", Num(3))>>, Num(20)) }


\* ------------------------------------------------------------------------
\* Bounds
\* ------------------------------------------------------------------------
\* submission timestamps taken in one behaviour of the concurrent
\* specification, and of the sequential ones
MaxChecklists == 2
SeqMaxChecklists == 1
\* rows a species source may hold
MaxSpeciesRows == 3
\* rows a grid_cells table may hold
MaxGridRows == 2
\* rows a news table may hold
MaxNewsRows == 51
\* registrations a behaviour may take up: of the concurrent specification,
\* and of the sequential ones
MaxUsers == 2
SeqMaxUsers == 1
\* features a GeoJSON file may hold
MaxFeatures == 3
\* steps of the import loop with its index below zero
MaxBackward == 2

\* ------------------------------------------------------------------------
\* State
\* ------------------------------------------------------------------------
VARIABLES
    backend,               \* the server file that is running
    DEBUG_API_ERRORS,      \* process.env.DEBUG_API_ERRORS === 'true'
    supabaseAdmin,         \* the managed-backend admin client is configured
    pool,                  \* the module-level pool handle is non-null
    probe,                 \* the pool's startup check: "none", "pending", "ok",
                           \* "failed"; "errored" once the pool has emitted
                           \* 'error' after its check succeeded
    checklists,            \* committed rows of the relational tables
    checklist_locations,
    species_observations,
    checklists_id_seq,     \* the SERIAL sequence of checklists.id
    tx,                    \* per request: the client it has borrowed from the
                           \* pool and the client's open transaction
    sb_checklists,         \* rows of the managed backend's checklists table
    sb_id_seq,
    users,                 \* rows of the users table
    users_id_seq,          \* the sequence of users.id
    clock,                 \* NOW() / new Date(): the next timestamp
    req,                   \* per request slot: inputs, position, response
    subs                   \* history: every submission that was given an id

vars == <<backend, DEBUG_API_ERRORS, supabaseAdmin, pool, probe, checklists, checklist_locations,
          species_observations, checklists_id_seq, tx, sb_checklists, sb_id_seq,
          users, users_id_seq, clock, req, subs>>

\* What no handler assigns
config == <<backend, DEBUG_API_ERRORS, supabaseAdmin>>
relational == <<checklists, checklist_locations, species_observations>>
managed == <<sb_checklists, sb_id_seq>>
accounts == <<users, users_id_seq>>

\* ------------------------------------------------------------------------
\* Responses
\* ------------------------------------------------------------------------
NoRow == [id |-> 0, user_id |-> "", grid_cell_id |-> "", time_spent_minutes |-> 0,
          submitted_at |-> 0]

NoResp == [status |-> 0, error |-> "", hint |-> "", detail |-> "", stack |-> "",
           checklistId |-> 0, userId |-> 0,
           checklist |-> NoRow, locations |-> {}, species |-> << >>, rows |-> << >>]

Error(status, error) == [NoResp EXCEPT !.status = status, !.error = error]

ErrorHint(status, error, hint) == [Error(status, error) EXCEPT !.hint = hint]

\* res.json({ success: true, checklistId, message })
Submitted(id) == [NoResp EXCEPT !.status = 200, !.checklistId = id]

\* res.json({ ...checklist, locations, species })
Details(row, locs, sp) ==
    [NoResp EXCEPT !.status = 200, !.checklist = row, !.locations = locs, !.species = sp]

\* res.json(rows)
Rows(rows) == [NoResp EXCEPT !.status = 200, !.rows = rows]

EmptyBody == Body(Undefined, Empty, << >>, Undefined)

\* The locals of the import loop: chunkSize, i, the features handed to the
\* import function so far, totalInserted
NoLoop == [chunkSize |-> Undefined, i |-> Undefined, slice |-> << >>, sent |-> << >>,
           totalInserted |-> 0]

NoTx == [client |-> FALSE, open |-> FALSE, checklists |-> {}, locations |-> {},
         species |-> {}]

Idle == [pc |-> "idle", route |-> "", token |-> NoToken, body |-> EmptyBody, id |-> 0,
         user |-> "", authed |-> FALSE, ts |-> 0, cid |-> 0, li |-> 0, si |-> 0, ti |-> 0,
         touched |-> {}, error |-> "", data |-> << >>, yield |-> {},
         origin |-> "", allowOrigin |-> "", down |-> FALSE, released |-> 0,
         email |-> "", known |-> FALSE, loop |-> NoLoop,
         resp |-> NoResp]

\* ------------------------------------------------------------------------
\* CORS layer and error handler
\* ------------------------------------------------------------------------
allowed == <<"https://www.tandonia.be", "https://tandonia.be", "http://localhost:3000">>

\* The Origin header of a request; "" when the request carries none
NoOrigin == ""
Origins == {NoOrigin, "https://tandonia.be", "https://evil.example"}

\* allowed.indexOf(origin) !== -1
IsAllowed(origin) == \E i \in 1..Len(allowed) : allowed[i] = origin

\* The origin callback: callback(null, true) without an Origin header or
\* for an allow-listed one, callback(null, false) otherwise
originCallback(origin) == IF origin = NoOrigin THEN TRUE ELSE IsAllowed(origin)

\* Access-Control-Allow-Origin as the cors middleware leaves it on a request
\* it passes on: the request's origin when the callback allowed it ("" is no
\* header), nothing otherwise
CorsHeader(origin) == IF originCallback(origin) THEN origin ELSE ""

\* The header the error handler sets: the origin when allow-listed,
\* allowed[0] otherwise
ErrorHandlerHeader(origin) ==
    IF origin # NoOrigin /\ IsAllowed(origin) THEN origin ELSE allowed[1]

\* A request of a route passes app.use(cors(...)) on its way to the handler
ThroughCors(q, origin) ==
    [q EXCEPT !.origin = origin, !.allowOrigin = CorsHeader(origin)]

\* ------------------------------------------------------------------------
\* Token verifier
\* ------------------------------------------------------------------------
Range(f) == {f[x] : x \in DOMAIN f}

Verdict(status, user, error) == [status |-> status, user |-> user, error |-> error]

\* A verifier that lets a request without a token through
authenticateToken_NoTokenPasses(token) ==
    IF ~token.present THEN Verdict(200, "", "")
    ELSE IF supabaseAdmin
         THEN IF token.sb = "ok" THEN Verdict(200, token.uid, "")
              ELSE Verdict(403, "", "Invalid token")
         ELSE IF token.jwt THEN Verdict(200, token.uid, "")
              ELSE Verdict(403, "", "Invalid token")

\* A verifier that falls back to the local secret when the provider rejects
authenticateToken_FallsThrough(token) ==
    IF ~token.present THEN Verdict(401, "", "No token provided")
    ELSE IF supabaseAdmin /\ token.sb = "ok" THEN Verdict(200, token.uid, "")
    ELSE IF token.jwt THEN Verdict(200, token.uid, "")
    ELSE Verdict(403, "", "Invalid token")

\* authenticateToken: 401 without a token; with the provider configured its
\* answer decides; otherwise jwt.verify against JWT_SECRET decides.
authenticateToken(token) ==
    IF ~token.present THEN Verdict(401, "", "No token provided")
    ELSE IF supabaseAdmin
         THEN IF token.sb = "ok" THEN Verdict(200, token.uid, "")
              ELSE Verdict(403, "", "Invalid token")
         ELSE IF token.jwt THEN Verdict(200, token.uid, "")
              ELSE Verdict(403, "", "Invalid token")

\* ------------------------------------------------------------------------
\* Checklist submission: the synchronous prefix of the handler
\* ------------------------------------------------------------------------
\* The alias copied always, overwriting a submitted anthropogenous entry
normalizedLocations_Overwrites(locations) ==
    IF "urban" \in DOMAIN locations
    THEN ("anthropogenous" :> locations["urban"]) @@ locations
    ELSE locations

\* const normalizedLocations = { ...locations }; urban copied into
\* anthropogenous when the latter is absent
normalizedLocations(locations) ==
    IF "anthropogenous" \notin DOMAIN locations /\ "urban" \in DOMAIN locations
    THEN locations @@ ("anthropogenous" :> locations["urban"])
    ELSE locations

\* The early returns of the handler; status 0 when the body passes
ValidateChecklist(userId, body) ==
    IF userId = "" THEN ErrorHint(401, "Unauthorized", "Missing authenticated user id")
    ELSE IF ~Truthy(body.gridCellId)
         THEN ErrorHint(400, "Bad Request", "gridCellId is required")
    ELSE IF ~Truthy(body.timeSpent) \/ IsNaNNumber(body.timeSpent)
         THEN ErrorHint(400, "Bad Request", "timeSpent is required and must be a number")
    ELSE NoResp

LocationTypes == <<"forest", "swamp", "anthropogenous">>

\* The statements the two loops of the transaction will issue, in order
LocationInserts(body) ==
    LET n == normalizedLocations(body.locations)
    IN  SelectSeq(LocationTypes, LAMBDA k : k \in DOMAIN n)

SpeciesInserts(body) == SelectSeq(body.species, LAMBDA e : GreaterThanZero(e.count))

\* ST_SetSRID(ST_MakePoint($3, $4), 31370) with [.., lng, lat]
MakePoint(lng, lat) == [x |-> lng, y |-> lat, srid |-> 31370]

\* ------------------------------------------------------------------------
\* Startup
\* ------------------------------------------------------------------------
Api == "api/index.js"
Standalone == "tandonia_backend.js"

\* supabaseAdmin is set when the service credentials are present; pool is
\* non-null when DATABASE_URL is set. api/index.js starts a SELECT 1 check of
\* the pool, which is still pending; tandonia_backend.js has no such check.
Start(backends, debug) ==
    /\ backend \in backends
    /\ DEBUG_API_ERRORS \in debug
    /\ supabaseAdmin \in BOOLEAN
    /\ pool \in BOOLEAN
    /\ probe = IF pool /\ backend = Api THEN "pending" ELSE "none"
    /\ checklists = {}
    /\ checklist_locations = {}
    /\ species_observations = {}
    /\ checklists_id_seq = 0
    /\ tx = [r \in Req |-> NoTx]
    /\ sb_checklists = {}
    /\ sb_id_seq = 0
    /\ users = {}
    /\ users_id_seq = 0
    /\ clock = 1
    /\ req = [r \in Req |-> Idle]
    /\ subs = {}

\* api/index.js with the debug flag off: no handler of the checklist and
\* species routes reads the flag
Init == Start({Api}, {FALSE})

\* No response is waiting to be delivered. A response is delivered before
\* anything else happens.
Delivered == \A r \in Req : req[r].pc # "done"

\* Request r is in flight, waiting for the awaited call named pc
At(r, pc) == Delivered /\ req[r].pc = pc

\* The slot holds no request: a new request may arrive on it
Free(r) == At(r, "idle")

\* The response of request r is delivered and its slot is free again
Complete(r) ==
    /\ req[r].pc = "done"
    /\ req' = [req EXCEPT ![r] = Idle]
    /\ UNCHANGED <<config, accounts, pool, probe, relational, checklists_id_seq, tx, managed,
                   clock, subs>>

\* candidate.query('SELECT 1') settles; its catch handler sets pool = null
ProbeSettles ==
    /\ Delivered
    /\ probe = "pending"
    /\ \E ok \in BOOLEAN :
         /\ probe' = IF ok THEN "ok" ELSE "failed"
         /\ pool' = IF ok THEN pool ELSE FALSE
    /\ UNCHANGED <<config, accounts, relational, checklists_id_seq, tx, managed, req, clock, subs>>

\* candidate.on('error', ...): the pool emits 'error' after its check
\* succeeded; the listener logs a warning and leaves pool as it is
PoolEmitsError ==
    /\ Delivered
    /\ backend = Api
    /\ pool
    /\ probe = "ok"
    /\ probe' = "errored"
    /\ UNCHANGED <<config, accounts, pool, relational, checklists_id_seq, tx, managed, req, clock, subs>>

\* The relational store has failed its startup check or has emitted an
\* error since
RelationalDown == probe \in {"failed", "errored"}

\* ------------------------------------------------------------------------
\* POST /api/checklists
\* ------------------------------------------------------------------------
Done(q, resp) ==
    [q EXCEPT !.pc = "done", !.resp = resp, !.li = 0, !.si = 0, !.ti = 0, !.ts = 0]

\* The promise of an async handler rejects with nothing to catch it. The
\* framework version decides what follows: Express 4 drops the rejection
\* and the request is never answered; Express 5 passes it to the error
\* handler, which answers { error: err.message } with status 500.
UnhandledRejection(q, message) ==
    { [q EXCEPT !.pc = "unanswered", !.error = message, !.li = 0, !.si = 0, !.ts = 0],
      Done([q EXCEPT !.error = message, !.allowOrigin = ErrorHandlerHeader(q.origin)],
           Error(500, message)) }

\* An insert that leaves only the new rows in the table
Insert_Truncates(table, rows) == rows

\* INSERT INTO table: the rows are added to those the table holds
Insert(table, rows) == table \cup rows

Sub(store, id, user, body, state) ==
    [store |-> store, id |-> id, user |-> user, body |-> body, state |-> state]

\* Submissions in flight that have not taken their timestamp yet
Unstamped == {r \in Req : req[r].pc \in {"connect", "begin"}}

\* The request arrives at api/index.js: authenticateToken, then the handler
\* up to its first awaited store call. inputs: the <<token, body>> pairs a
\* client may send; cap: the number of submission timestamps a behaviour
\* may take.
PostChecklists(r, inputs, cap) ==
    /\ Free(r)
    /\ backend = Api
    /\ (clock - 1) + Cardinality(Unstamped) < cap
    /\ \E in \in inputs :
         LET token == in[1]
             body == in[2]
             a == authenticateToken(token)
             v == ValidateChecklist(a.user, body)
             q == [Idle EXCEPT !.route = "submit", !.token = token, !.body = body,
                               !.authed = (a.status = 200), !.user = a.user,
                               !.down = RelationalDown]
             fallback == a.status = 200 /\ v.status = 0 /\ ~pool /\ supabaseAdmin
         IN  /\ clock' = IF fallback THEN clock + 1 ELSE clock
             /\ req' = [req EXCEPT ![r] =
                   IF a.status # 200 THEN Done(q, Error(a.status, a.error))
                   ELSE IF v.status # 0 THEN Done(q, v)
                   ELSE IF ~pool
                        THEN IF supabaseAdmin
                             THEN [q EXCEPT !.pc = "sb_insert", !.ts = clock]
                             ELSE Done(q, ErrorHint(503, "Database unavailable",
                                                    "Postgres disabled"))
                        ELSE [q EXCEPT !.pc = "connect"]]
    /\ UNCHANGED <<config, accounts, pool, probe, relational, checklists_id_seq, tx, managed, subs>>

\* The denormalized record of the fallback insert
FallbackPayload(q, id) ==
    [id |-> id, user_id |-> q.user, grid_cell_id |-> q.body.gridCellId.s,
     time_spent_minutes |-> ToNumber(q.body.timeSpent), submitted_at |-> q.ts,
     locations |-> normalizedLocations(q.body.locations), species |-> q.body.species]

\* await supabaseAdmin.from('checklists').insert(payload).select()
SupabaseInsertChecklist(r) ==
    /\ At(r, "sb_insert")
    /\ \E outcome \in {"ok", "error", "throw"} :
         LET q == [req[r] EXCEPT !.touched = @ \cup {"sb"}]
             id == sb_id_seq + 1
         IN  IF outcome = "ok"
             THEN /\ sb_id_seq' = id
                  /\ sb_checklists' = Insert(sb_checklists, {FallbackPayload(q, id)})
                  /\ subs' = subs \cup {Sub("sb", id, q.user, q.body, "committed")}
                  /\ req' = [req EXCEPT ![r] = Done([q EXCEPT !.cid = id], Submitted(id))]
             ELSE /\ UNCHANGED <<managed, subs>>
                  /\ req' = [req EXCEPT ![r] =
                        Done(q, [ErrorHint(503, "Database unavailable",
                                           "supabase fallback failed")
                                 EXCEPT !.detail = IF outcome = "error"
                                                   THEN "store message" ELSE ""])]
    /\ UNCHANGED <<config, accounts, pool, probe, relational, checklists_id_seq, tx, clock>>

\* The request arrives at tandonia_backend.js: authenticateToken, then
\* pool.connect() outside any try block. Without a pool the call throws a
\* TypeError. The handler validates nothing; the bodies sent are valid ones.
StandalonePostChecklists(r, inputs, cap) ==
    /\ Free(r)
    /\ backend = Standalone
    /\ (clock - 1) + Cardinality(Unstamped) < cap
    /\ \E in \in inputs :
         LET token == in[1]
             a == authenticateToken(token)
             q == [Idle EXCEPT !.route = "submit", !.token = token, !.body = in[2],
                               !.authed = (a.status = 200), !.user = a.user]
         IN  \E next \in (IF a.status # 200 THEN {Done(q, Error(a.status, a.error))}
                          ELSE IF ~pool
                               THEN UnhandledRejection(q, "Cannot read properties of null")
                               ELSE {[q EXCEPT !.pc = "connect"]}) :
                req' = [req EXCEPT ![r] = next]
    /\ UNCHANGED <<config, accounts, pool, probe, relational, checklists_id_seq, tx, managed, clock, subs>>

\* A client that is never given back
ReleaseClient_Kept(t) == t

\* client.release()
ReleaseClient(t) == [t EXCEPT !.client = FALSE]

\* finally { if (client) client.release() }: the transaction of the client is
\* over and the client goes back to the pool
Finally(t) == ReleaseClient([NoTx EXCEPT !.client = t.client])

Released(q) == [q EXCEPT !.released = @ + 1]

\* client = await pool.connect(). api/index.js answers 503 when the call
\* rejects; in tandonia_backend.js nothing catches the rejection
PoolConnect(r) ==
    /\ At(r, "connect")
    /\ \E ok \in BOOLEAN :
         LET q == req[r]
         IN  IF ok
             THEN /\ req' = [req EXCEPT ![r] =
                        [q EXCEPT !.pc = "begin", !.touched = @ \cup {"pg"}]]
                  /\ tx' = [tx EXCEPT ![r] = [@ EXCEPT !.client = TRUE]]
             ELSE /\ \E next \in (IF backend = Api
                                  THEN {Done(q, Error(503, "Database unavailable"))}
                                  ELSE UnhandledRejection(q, "connect failed")) :
                       req' = [req EXCEPT ![r] = next]
                  /\ UNCHANGED tx
    /\ UNCHANGED <<config, accounts, pool, probe, relational, checklists_id_seq, managed, clock, subs>>

\* The transaction entered without BEGIN
BeginTransaction_Missing(t) == t

\* client.query('BEGIN')
BeginTransaction(t) == [t EXCEPT !.open = TRUE]

\* A statement failed: control is in the catch block
Failed(q, message) ==
    [q EXCEPT !.pc = "rollback", !.error = message, !.li = 0, !.si = 0, !.ts = 0]

\* await client.query('BEGIN')
TxBegin(r) ==
    /\ At(r, "begin")
    /\ \E ok \in BOOLEAN :
         IF ok
         THEN /\ tx' = [tx EXCEPT ![r] = BeginTransaction(@)]
              /\ req' = [req EXCEPT ![r] = [@ EXCEPT !.pc = "insert_checklist", !.ts = clock]]
              /\ clock' = clock + 1
         ELSE /\ req' = [req EXCEPT ![r] = Failed(@, "BEGIN failed")]
              /\ UNCHANGED <<tx, clock>>
    /\ UNCHANGED <<config, accounts, pool, probe, relational, checklists_id_seq, managed, subs>>

Delta(c, l, sp) == [checklists |-> c, locations |-> l, species |-> sp]

\* An insert on the request's client: held in its transaction when one is
\* open, committed at once otherwise
ClientInsert(r, d) ==
    IF tx[r].open
    THEN /\ tx' = [tx EXCEPT ![r] =
                [@ EXCEPT !.checklists = @ \cup d.checklists,
                          !.locations = @ \cup d.locations,
                          !.species = @ \cup d.species]]
         /\ UNCHANGED relational
    ELSE /\ checklists' = Insert(checklists, d.checklists)
         /\ checklist_locations' = Insert(checklist_locations, d.locations)
         /\ species_observations' = Insert(species_observations, d.species)
         /\ UNCHANGED tx

\* The next awaited statement of the two insert loops, or COMMIT
Advance(q) ==
    IF q.li < Len(LocationInserts(q.body))
    THEN [q EXCEPT !.pc = "insert_location", !.li = @ + 1]
    ELSE IF q.si < Len(SpeciesInserts(q.body))
         THEN [q EXCEPT !.pc = "insert_species", !.si = @ + 1]
         ELSE [q EXCEPT !.pc = "commit", !.li = 0, !.si = 0]

\* The history entry of a submission takes its outcome; of an aborted one
\* only the id is kept
SetState(store, id, state) ==
    {IF s.store = store /\ s.id = id
     THEN (IF state = "aborted" THEN Sub(store, id, "", EmptyBody, state)
           ELSE [s EXCEPT !.state = state])
     ELSE s : s \in subs}

\* Requests that verify, one body per user
ConcInputs ==
    {<<t, b>> \in GoodTokens \X ConcBodies : (t.uid = "u1") = (b.gridCellId = Str("cell-7"))}

\* A sequence that hands out the same id again
NextVal_Repeats(seq) == 1

\* nextval of the SERIAL sequence behind checklists.id
NextVal(seq) == seq + 1

\* INSERT INTO checklists (...) VALUES ($1, $2, $3, NOW()) RETURNING id
TxInsertChecklist(r) ==
    /\ At(r, "insert_checklist")
    /\ \E ok \in BOOLEAN :
         LET q == req[r]
             id == NextVal(checklists_id_seq)
             row == [id |-> id, user_id |-> q.user, grid_cell_id |-> q.body.gridCellId.s,
                     time_spent_minutes |-> ToNumber(q.body.timeSpent),
                     submitted_at |-> q.ts]
         IN  IF ok
             THEN /\ checklists_id_seq' = id
                  /\ ClientInsert(r, Delta({row}, {}, {}))
                  /\ subs' = subs \cup {Sub("pg", id, q.user, q.body, "open")}
                  /\ req' = [req EXCEPT ![r] = Advance([q EXCEPT !.cid = id])]
             ELSE /\ req' = [req EXCEPT ![r] = Failed(q, "insert failed")]
                  /\ UNCHANGED <<relational, checklists_id_seq, tx, subs>>
    /\ UNCHANGED <<config, accounts, pool, probe, managed, clock>>

\* INSERT INTO checklist_locations (...) for the current locType; a
\* coordinate without lat or lng gives a NULL geom, which the column refuses
TxInsertLocation(r) ==
    /\ At(r, "insert_location")
    /\ LET q == req[r]
           locType == LocationInserts(q.body)[q.li]
           c == normalizedLocations(q.body.locations)[locType]
           hasPoint == c.lat.t = "number" /\ c.lng.t = "number"
       IN  \E ok \in (IF hasPoint THEN BOOLEAN ELSE {FALSE}) :
             IF ok
             THEN /\ ClientInsert(r, Delta({}, {[checklist_id |-> q.cid,
                                                 location_type |-> locType,
                                                 geom |-> MakePoint(c.lng.n, c.lat.n)]}, {}))
                  /\ req' = [req EXCEPT ![r] = Advance(q)]
             ELSE /\ req' = [req EXCEPT ![r] = Failed(q, "insert failed")]
                  /\ UNCHANGED <<relational, tx>>
    /\ UNCHANGED <<config, accounts, pool, probe, checklists_id_seq, managed, clock, subs>>

\* INSERT INTO species_observations (...) for the current entry with count > 0
TxInsertSpecies(r) ==
    /\ At(r, "insert_species")
    /\ LET q == req[r]
           e == SpeciesInserts(q.body)[q.si]
       IN  \E ok \in BOOLEAN :
             IF ok
             THEN /\ ClientInsert(r, Delta({}, {}, {[checklist_id |-> q.cid,
                                                     species_name |-> e.name,
                                                     count |-> ToNumber(e.count)]}))
                  /\ req' = [req EXCEPT ![r] = Advance(q)]
             ELSE /\ req' = [req EXCEPT ![r] = Failed(q, "insert failed")]
                  /\ UNCHANGED <<relational, tx>>
    /\ UNCHANGED <<config, accounts, pool, probe, checklists_id_seq, managed, clock, subs>>

\* await client.query('COMMIT'); res.json({ success, checklistId }); release
TxCommit(r) ==
    /\ At(r, "commit")
    /\ \E ok \in BOOLEAN :
         LET q == req[r]
         IN  IF ok
             THEN /\ checklists' = Insert(checklists, tx[r].checklists)
                  /\ checklist_locations' = Insert(checklist_locations, tx[r].locations)
                  /\ species_observations' = Insert(species_observations, tx[r].species)
                  /\ tx' = [tx EXCEPT ![r] = Finally(@)]
                  /\ subs' = SetState("pg", q.cid, "committed")
                  /\ req' = [req EXCEPT ![r] = Done(Released(q), Submitted(q.cid))]
             ELSE /\ req' = [req EXCEPT ![r] = Failed(q, "COMMIT failed")]
                  /\ UNCHANGED <<relational, tx, subs>>
    /\ UNCHANGED <<config, accounts, pool, probe, checklists_id_seq, managed, clock>>

\* catch: await client.query('ROLLBACK'); 500; finally release. Whether or
\* not the ROLLBACK is delivered, the open transaction is gone. api/index.js
\* runs the ROLLBACK in a try of its own and answers 500 with the message of
\* the error in either case; in tandonia_backend.js a failing ROLLBACK
\* throws out of the catch block, past the response.
TxRollback(r) ==
    /\ At(r, "rollback")
    /\ \E ok \in BOOLEAN :
         LET q == Released(req[r])
         IN  /\ tx' = [tx EXCEPT ![r] = Finally(@)]
             /\ subs' = IF q.cid # 0 THEN SetState("pg", q.cid, "aborted") ELSE subs
             /\ \E next \in (IF backend = Api
                              THEN {Done(q, [Error(500, "Error submitting checklist")
                                             EXCEPT !.detail = q.error])}
                              ELSE IF ok THEN {Done(q, Error(500, "Server error"))}
                                   ELSE UnhandledRejection(q, "ROLLBACK failed")) :
                   req' = [req EXCEPT ![r] = next]
    /\ UNCHANGED <<config, accounts, pool, probe, relational, checklists_id_seq, managed, clock>>

\* ------------------------------------------------------------------------
\* Checklist readers
\* ------------------------------------------------------------------------
RECURSIVE SetToSeq(_)
SetToSeq(S) ==
    IF S = {} THEN << >>
    ELSE LET x == CHOOSE y \in S : TRUE IN <<x>> \o SetToSeq(S \ {x})

\* Position of a species name in alphabetical order
NameRank(n) == CHOOSE i \in 1..Len(SpeciesNames) : SpeciesNames[i] = n

Header(row) ==
    [id |-> row.id, user_id |-> row.user_id, grid_cell_id |-> row.grid_cell_id,
     time_spent_minutes |-> row.time_spent_minutes, submitted_at |-> row.submitted_at]

\* The detail lookup without its ownership condition
SelectChecklist_AnyOwner(id, userId) == {c \in checklists : c.id = id}

\* SELECT * FROM checklists WHERE id = $1 AND user_id = $2
SelectChecklist(id, userId) == {c \in checklists : c.id = id /\ c.user_id = userId}

\* SELECT location_type, ST_Y(geom) as lat, ST_X(geom) as lng ... WHERE checklist_id = $1
SelectLocations(id) ==
    {[location_type |-> l.location_type, lat |-> Num(l.geom.y), lng |-> Num(l.geom.x)] :
        l \in {m \in checklist_locations : m.checklist_id = id}}

\* SELECT species_name, count ... WHERE checklist_id = $1 ORDER BY species_name
SelectSpecies(id) ==
    SortSeq(SetToSeq({[species_name |-> o.species_name, count |-> Num(o.count)] :
                        o \in {m \in species_observations : m.checklist_id = id}}),
            LAMBDA a, b : NameRank(a.species_name) < NameRank(b.species_name))

ListRow(c, nl, ns) ==
    [id |-> c.id, grid_cell_id |-> c.grid_cell_id,
     time_spent_minutes |-> c.time_spent_minutes, submitted_at |-> c.submitted_at,
     location_count |-> nl, species_count |-> ns]

\* ORDER BY submitted_at DESC / .order('submitted_at', { ascending: false })
NewestFirst(rows) ==
    SortSeq(SetToSeq(rows), LAMBDA a, b : a.submitted_at > b.submitted_at)

\* The listing query without its WHERE c.user_id = $1
OwnedBy_Anyone(userId, table) == table

\* WHERE c.user_id = $1 / .eq('user_id', req.user.id)
OwnedBy(userId, table) == {c \in table : c.user_id = userId}

\* SELECT c.*, COUNT(DISTINCT cl.id), COUNT(DISTINCT so.id) ... GROUP BY c.id
ListChecklistsQuery(userId) ==
    NewestFirst({ListRow(c,
                    Cardinality({l \in checklist_locations : l.checklist_id = c.id}),
                    Cardinality({o \in species_observations : o.checklist_id = c.id})) :
                 c \in OwnedBy(userId, checklists)})

\* The fallback listing: counts are the key counts of the embedded objects
ListChecklistsFallback(userId) ==
    NewestFirst({ListRow(c, Cardinality(DOMAIN c.locations), Len(c.species)) :
                 c \in OwnedBy(userId, sb_checklists)})

\* The identity check and store choice shared by the two readers
ReaderStart(q, a, pgpc, sbpc) ==
    IF a.status # 200 THEN Done(q, Error(a.status, a.error))
    ELSE IF ~pool
         THEN IF supabaseAdmin THEN [q EXCEPT !.pc = sbpc]
              ELSE Done(q, Error(503, "Database unavailable"))
         ELSE [q EXCEPT !.pc = pgpc]

\* GET /api/checklists arrives
GetChecklists(r, tokens) ==
    /\ Free(r)
    /\ \E token \in tokens :
         LET a == authenticateToken(token)
             q == [Idle EXCEPT !.route = "list", !.token = token,
                               !.authed = (a.status = 200), !.user = a.user]
         IN  req' = [req EXCEPT ![r] = ReaderStart(q, a, "list_query", "sb_list")]
    /\ UNCHANGED <<config, accounts, pool, probe, relational, checklists_id_seq, tx, managed, clock, subs>>

\* the awaited pool.query of the listing settles
ListQuery(r) ==
    /\ At(r, "list_query")
    /\ \E ok \in BOOLEAN :
         LET q == [req[r] EXCEPT !.touched = @ \cup {"pg"}]
         IN  req' = [req EXCEPT ![r] =
                 IF ok THEN Done(q, Rows(ListChecklistsQuery(q.user)))
                 ELSE Done(q, Error(500, "Server error"))]
    /\ UNCHANGED <<config, accounts, pool, probe, relational, checklists_id_seq, tx, managed, clock, subs>>

\* the awaited managed-backend select of the listing settles
SupabaseList(r) ==
    /\ At(r, "sb_list")
    /\ \E outcome \in {"ok", "error", "throw"} :
         LET q == [req[r] EXCEPT !.touched = @ \cup {"sb"}]
         IN  req' = [req EXCEPT ![r] =
                 IF outcome = "ok" THEN Done(q, Rows(ListChecklistsFallback(q.user)))
                 ELSE IF outcome = "error"
                      THEN Done(q, ErrorHint(503, "Database unavailable",
                                             "Supabase fallback failed"))
                      ELSE Done(q, Error(503, "Database unavailable"))]
    /\ UNCHANGED <<config, accounts, pool, probe, relational, checklists_id_seq, tx, managed, clock, subs>>

\* Ids a client may ask for: every id given out so far and one beyond
KnownIds ==
    1..((IF checklists_id_seq > sb_id_seq THEN checklists_id_seq ELSE sb_id_seq) + 1)

\* GET /api/checklists/:id arrives
GetChecklist(r, tokens) ==
    /\ Free(r)
    /\ \E token \in tokens, id \in KnownIds :
         LET a == authenticateToken(token)
             q == [Idle EXCEPT !.route = "detail", !.token = token, !.id = id,
                               !.authed = (a.status = 200), !.user = a.user]
         IN  req' = [req EXCEPT ![r] =
                 ReaderStart(q, a, "detail_checklist", "sb_detail")]
    /\ UNCHANGED <<config, accounts, pool, probe, relational, checklists_id_seq, tx, managed, clock, subs>>

\* The next pool.query(...) is evaluated: with pool null it throws inside
\* the try block and the catch answers 500
NextQuery_Unguarded(q, pc) ==
    [q EXCEPT !.pc = IF pool THEN pc ELSE "unanswered"]

NextQuery(q, pc) ==
    IF pool THEN [q EXCEPT !.pc = pc] ELSE Done(q, Error(500, "Server error"))

\* the checklist lookup settles; 404 when it returns no row
DetailChecklist(r) ==
    /\ At(r, "detail_checklist")
    /\ \E ok \in BOOLEAN :
         LET q == [req[r] EXCEPT !.touched = @ \cup {"pg"}]
             found == SelectChecklist(q.id, q.user)
         IN  req' = [req EXCEPT ![r] =
                 IF ~ok THEN Done(q, Error(500, "Server error"))
                 ELSE IF found = {} THEN Done(q, Error(404, "Checklist not found"))
                 ELSE NextQuery([q EXCEPT !.resp.checklist =
                                    Header(CHOOSE c \in found : TRUE)],
                                "detail_locations")]
    /\ UNCHANGED <<config, accounts, pool, probe, relational, checklists_id_seq, tx, managed, clock, subs>>

\* the locations query settles
DetailLocations(r) ==
    /\ At(r, "detail_locations")
    /\ \E ok \in BOOLEAN :
         LET q == req[r]
         IN  req' = [req EXCEPT ![r] =
                 IF ~ok THEN Done(q, Error(500, "Server error"))
                 ELSE NextQuery([q EXCEPT !.resp.locations = SelectLocations(q.id)],
                                "detail_species")]
    /\ UNCHANGED <<config, accounts, pool, probe, relational, checklists_id_seq, tx, managed, clock, subs>>

\* the species query settles; res.json({ ...checklist, locations, species })
DetailSpecies(r) ==
    /\ At(r, "detail_species")
    /\ \E ok \in BOOLEAN :
         LET q == req[r]
         IN  req' = [req EXCEPT ![r] =
                 IF ~ok THEN Done(q, Error(500, "Server error"))
                 ELSE Done(q, Details(q.resp.checklist, q.resp.locations,
                                      SelectSpecies(q.id)))]
    /\ UNCHANGED <<config, accounts, pool, probe, relational, checklists_id_seq, tx, managed, clock, subs>>

\* The entries of an embedded locations object
LocationEntries(m) ==
    {[location_type |-> k, lat |-> m[k].lat, lng |-> m[k].lng] : k \in DOMAIN m}

\* The entries of an embedded species object
SpeciesEntries(sp) ==
    [i \in 1..Len(sp) |-> [species_name |-> sp[i].name, count |-> sp[i].count]]

\* .from('checklists').select('*').eq('id', ...).eq('user_id', ...).maybeSingle()
SupabaseSelectChecklist(id, userId) ==
    {c \in sb_checklists : c.id = id /\ c.user_id = userId}

\* the managed-backend lookup settles; res.json({ ...data, locations, species })
SupabaseDetail(r) ==
    /\ At(r, "sb_detail")
    /\ \E outcome \in {"ok", "error", "throw"} :
         LET q == [req[r] EXCEPT !.touched = @ \cup {"sb"}]
             found == SupabaseSelectChecklist(q.id, q.user)
         IN  req' = [req EXCEPT ![r] =
                 IF outcome = "error"
                 THEN Done(q, ErrorHint(503, "Database unavailable",
                                        "Supabase fallback failed"))
                 ELSE IF outcome = "throw"
                      THEN Done(q, Error(503, "Database unavailable"))
                 ELSE IF found = {} THEN Done(q, Error(404, "Checklist not found"))
                 ELSE LET data == CHOOSE c \in found : TRUE
                      IN  Done(q, Details(Header(data), LocationEntries(data.locations),
                                          SpeciesEntries(data.species)))]
    /\ UNCHANGED <<config, accounts, pool, probe, relational, checklists_id_seq, tx, managed, clock, subs>>

\* ------------------------------------------------------------------------
\* GET /api/species
\* ------------------------------------------------------------------------
\* A row of a managed-backend species table as select('*') returns it: the
\* count may sit under any of four field names, as a number or as text
RawSpecies(name, oc, c, camel, obs) ==
    [scientific_name |-> name, observation_count |-> oc, count |-> c,
     observationCount |-> camel, observations |-> obs]

RawSpeciesRows ==
    { RawSpecies("Arion ater", Num(5), Undefined, Undefined, Undefined),
      RawSpecies("Limax maximus", Undefined, Str("20"), Undefined, Undefined),
      RawSpecies("Deroceras", Undefined, Undefined, Num(3), Undefined),
      RawSpecies("Pisidium", Undefined, Undefined, Undefined, Str("7 seen")),
      RawSpecies("Sphaerium", Str("abc"), Num(9), Undefined, Undefined),
      RawSpecies("Musculium", Undefined, Undefined, Undefined, Undefined) }

RECURSIVE SeqsUpTo(_, _)
SeqsUpTo(S, n) ==
    IF n = 0 THEN {<< >>}
    ELSE LET shorter == SeqsUpTo(S, n - 1)
         IN  shorter \cup {Append(q, x) : q \in {t \in shorter : Len(t) = n - 1}, x \in S}

\* What a managed-backend species table may hold
SpeciesTableData == SeqsUpTo(RawSpeciesRows, MaxSpeciesRows)

\* a ?? b
Nullish(a, b) == IF a.t = "undefined" THEN b ELSE a

\* parseInt(v, 10) || 0
ParseIntOrZero(v) ==
    CASE v.t = "number" -> v.n
      [] v.t = "string" -> (CASE v.s = "20" -> 20
                              [] v.s = "3" -> 3
                              [] v.s = "7 seen" -> 7
                              [] OTHER -> 0)
      [] OTHER -> 0

\* row.observation_count ?? row.count ?? row.observationCount ?? row.observations ?? 0
observationCount(row) ==
    ParseIntOrZero(Nullish(row.observation_count,
                   Nullish(row.count,
                   Nullish(row.observationCount,
                   Nullish(row.observations, Num(0))))))

normalizeSpeciesRow(row, idx) ==
    [id |-> idx + 1, scientific_name |-> row.scientific_name, dutch_name |-> "",
     observation_count |-> observationCount(row)]

\* The managed-backend rows left in the order the table returned them
SortByObservationCount_Unsorted(rows) == rows

\* normalized.sort((a, b) => (b.observation_count || 0) - (a.observation_count || 0))
SortByObservationCount(rows) ==
    SortSeq(rows, LAMBDA a, b : a.observation_count > b.observation_count)

\* data.map(normalizeSpeciesRow) and the sort, of one table's rows
NormalizedSpecies(data) ==
    SortByObservationCount([i \in 1..Len(data) |-> normalizeSpeciesRow(data[i], i - 1)])

\* The relational species catalog: observation_count may be NULL
Null == [t |-> "null", n |-> 0, s |-> ""]

CatalogRow(id, name, oc) ==
    [id |-> id, scientific_name |-> name, dutch_name |-> "", observation_count |-> oc]

CatalogUniverse ==
    { CatalogRow(1, "Arion ater", Num(5)),
      CatalogRow(2, "Limax maximus", Null),
      CatalogRow(3, "Deroceras", Num(2)),
      CatalogRow(4, "Pisidium", Num(5)) }

\* What the species table of the relational store may hold
CatalogData == {c \in SUBSET CatalogUniverse : Cardinality(c) <= MaxSpeciesRows}

\* COALESCE(observation_count, 0)
Coalesce(v) == IF v = Null THEN 0 ELSE v.n

\* ORDER BY observation_count names the output column, the COALESCE value
OrderKey(row) == Coalesce(row.observation_count)

\* Every order of the rows of a set
Orders(S) ==
    {q \in [1..Cardinality(S) -> S] : \A i, j \in 1..Cardinality(S) : q[i] = q[j] => i = j}

\* SELECT id, scientific_name, dutch_name, COALESCE(observation_count, 0) AS
\* observation_count FROM species ORDER BY observation_count DESC: every
\* order the statement allows (ties are in any order)
SelectSpeciesCatalog(table) ==
    LET out(row) == [row EXCEPT !.observation_count = Coalesce(@)]
    IN  {[i \in 1..Cardinality(table) |-> out(q[i])] :
            q \in {o \in Orders(table) :
                     \A i, j \in 1..Cardinality(table) :
                        i < j => OrderKey(o[i]) >= OrderKey(o[j])}}

SUPABASE_SPECIES_TABLES == <<"species", "pill_clams">>

Unavailable == Error(503, "Species data unavailable")

\* fetchPostgresSpeciesJoin is entered: null at once without a pool
PostgresSpecies(q) ==
    IF pool THEN [q EXCEPT !.pc = "species_query", !.ti = 0] ELSE Done(q, Unavailable)

\* GET /api/species arrives: no token is asked for
GetSpecies(r) ==
    /\ Free(r)
    /\ LET q == [Idle EXCEPT !.route = "species"]
       IN  req' = [req EXCEPT ![r] =
               IF supabaseAdmin THEN [q EXCEPT !.pc = "species_table", !.ti = 1]
               ELSE PostgresSpecies(q)]
    /\ UNCHANGED <<config, accounts, pool, probe, relational, checklists_id_seq, tx, managed, clock, subs>>

\* await supabaseAdmin.from(table).select('*') settles for the current table:
\* a non-empty table answers the request, anything else moves on
\* datasets: the results the current table may give.
SpeciesTableQuery(r, datasets) ==
    /\ At(r, "species_table")
    /\ \E outcome \in {"ok", "error", "throw"}, data \in datasets :
         LET q == [req[r] EXCEPT !.touched = @ \cup {"sb"}]
         IN  /\ outcome # "ok" => data = << >>
             /\ req' = [req EXCEPT ![r] =
                   IF outcome = "ok" /\ Len(data) > 0
                   THEN Done(q, Rows(NormalizedSpecies(data)))
                   ELSE IF q.ti < Len(SUPABASE_SPECIES_TABLES)
                        THEN [q EXCEPT !.ti = @ + 1]
                        ELSE PostgresSpecies(q)]
    /\ UNCHANGED <<config, accounts, pool, probe, relational, checklists_id_seq, tx, managed, clock, subs>>

\* the catalog query settles: its rows answer the request; a failed query
\* (the table is missing, the store is unreachable) or no row gives 503
\* tables: the contents the catalog may have.
SpeciesQuery(r, tables) ==
    /\ At(r, "species_query")
    /\ \E outcome \in {"ok", "missing", "unreachable"}, table \in tables :
         LET q == [req[r] EXCEPT !.touched = @ \cup {"pg"}, !.error = outcome]
         IN  /\ outcome # "ok" => table = {}
             /\ \E rows \in SelectSpeciesCatalog(table) :
                  req' = [req EXCEPT ![r] =
                      IF outcome = "ok" /\ Len(rows) > 0 THEN Done(q, Rows(rows))
                      ELSE Done(q, Unavailable)]
    /\ UNCHANGED <<config, accounts, pool, probe, relational, checklists_id_seq, tx, managed, clock, subs>>

\* ------------------------------------------------------------------------
\* GET /api/grid-cells
\* ------------------------------------------------------------------------
\* A geometry value as a store returns it: NULL, a GeoJSON object, the JSON
\* text of one, or text that is not JSON (a hex-encoded geometry)
NoGeometry == [t |-> "null", json |-> FALSE, shape |-> ""]
Geometry(shape) == [t |-> "object", json |-> TRUE, shape |-> shape]
GeometryText(shape) == [t |-> "string", json |-> TRUE, shape |-> shape]
GeometryHex(shape) == [t |-> "string", json |-> FALSE, shape |-> shape]

\* A jsonb properties value: an object, or NULL
Object(map) == [t |-> "object", map |-> map]
NullObject == [t |-> "null", map |-> Empty]

\* A row of grid_cells (id bigserial, properties jsonb, geom geometry)
GridRow(id, geom, properties) == [id |-> Num(id), geom |-> geom, properties |-> properties]

\* Rows as the managed backend's select('id, geom, properties') may return
\* them; the second carries stale annotations among its stored properties
GridRows ==
    { GridRow(7, Geometry("A"), Object("name" :> Str("Gent"))),
      GridRow(8, GeometryText("B"),
              Object(("has_checklist" :> Bool(TRUE)) @@ ("checklist_count" :> Num(5)))),
      GridRow(9, GeometryHex("C"), NullObject),
      GridRow(7, NoGeometry, Object(Empty)) }

GridCellsData == SeqsUpTo(GridRows, MaxGridRows)

\* The relational column is a geometry: ST_AsGeoJSON(geom)::json gives an
\* object, or NULL
GridCellsTable == SeqsUpTo({g \in GridRows : g.geom.t \in {"object", "null"}}, MaxGridRows)

\* Bodies that name the grid cells 7 and 8
GridBodies ==
    {Body(Str(g), ("forest" :> P1), <<Entry("Arion ater", Num(3))>>, Num(15)) :
        g \in {"7", "8"}}

GridInputs == {t \in GoodTokens : t.uid = "u1"} \X GridBodies

parseGeometry(value) ==
    IF value.t = "null" THEN NoGeometry
    ELSE IF value.t = "object" THEN value
    ELSE IF value.t = "string"
         THEN (IF value.json THEN Geometry(value.shape) ELSE NoGeometry)
         ELSE NoGeometry

\* null, which normalizeGridCellRow returns for a row without geometry
NoFeature == [id |-> Null, geometry |-> NoGeometry, properties |-> Empty]

\* `cell-${idx}`
CellIdx(idx) == <<"cell-0", "cell-1", "cell-2", "cell-3">>[idx + 1]

\* row.properties || {}
OrEmptyObject(properties) == IF properties.t = "object" THEN properties.map ELSE Empty

\* row: { id, properties, geometry }
normalizeGridCellRow(row, idx) ==
    LET geometry == parseGeometry(row.geometry)
    IN  IF geometry.t = "null" THEN NoFeature
        ELSE [id |-> IF row.id.t \in {"null", "undefined"} THEN Str(CellIdx(idx)) ELSE row.id,
              geometry |-> geometry,
              properties |-> OrEmptyObject(row.properties)]

\* String(id) of the ids of the model
String(v) ==
    CASE v.t = "string" -> v.s
      [] v.t = "number" -> (CASE v.n = 7 -> "7" [] v.n = 8 -> "8" [] v.n = 9 -> "9"
                              [] OTHER -> "0")
      [] OTHER -> "null"

\* checklistCounts after the loop over the rows of select('grid_cell_id')
ChecklistCounts(rows) ==
    [k \in {c.grid_cell_id : c \in rows} |-> Cardinality({c \in rows : c.grid_cell_id = k})]

\* checklistCounts[key] || 0
CountOf(checklistCounts, key) ==
    IF key \in DOMAIN checklistCounts THEN checklistCounts[key] ELSE 0

\* properties.checklist_count = count; properties.has_checklist = count > 0
Annotated(n, count) ==
    [n EXCEPT !.properties =
        (("checklist_count" :> Num(count)) @@ ("has_checklist" :> Bool(count > 0))) @@ @]

\* A filter that keeps the null entries
FilterBoolean_KeepsNull(mapped) == mapped

\* .filter(Boolean)
FilterBoolean(mapped) == SelectSeq(mapped, LAMBDA f : f # NoFeature)

\* data.map(...).filter(Boolean) of the managed-backend path. api/index.js
\* annotates each feature with the count of its key; tandonia_backend.js
\* returns the normalized rows as they are
SupabaseFeatures(data, checklistCounts) ==
    FilterBoolean(
        [i \in 1..Len(data) |->
            LET normalized == normalizeGridCellRow(
                                  [id |-> data[i].id,
                                   properties |-> Object(OrEmptyObject(data[i].properties)),
                                   geometry |-> data[i].geom], i - 1)
            IN  IF normalized = NoFeature \/ backend = Standalone THEN normalized
                ELSE Annotated(normalized,
                               CountOf(checklistCounts, String(normalized.id)))])

\* Column types of the repository's DDL: grid_cells.id is bigserial,
\* checklists.grid_cell_id is TEXT
GridCellsIdType == "bigint"
ChecklistsGridCellIdType == "text"

\* ON c.grid_cell_id = gc.id: the store has no = operator between two
\* different types and refuses the query
JoinComparable == ChecklistsGridCellIdType = GridCellsIdType

\* The rows of the relational query. api/index.js: grid_cells LEFT JOIN the
\* checklist counts per grid_cell_id, COALESCE(c.checklist_count, 0);
\* tandonia_backend.js: SELECT id, ST_AsGeoJSON(geom)::json, properties
SelectGridCells(table) ==
    [i \in 1..Len(table) |->
        [id |-> table[i].id, geometry |-> table[i].geom, properties |-> table[i].properties,
         checklist_count |->
            Cardinality({c \in checklists : c.grid_cell_id = String(table[i].id)})]]

\* result.rows.map(...).filter(Boolean) of the relational path
PostgresFeatures(rows) ==
    FilterBoolean(
        [i \in 1..Len(rows) |->
            LET n == normalizeGridCellRow(rows[i], i - 1)
            IN  IF n = NoFeature \/ backend = Standalone THEN n
                ELSE Annotated(n, rows[i].checklist_count)])

GridUnavailable == Error(503, "Grid cells unavailable")

\* if (pool) { ... } return res.status(503)
GridCellsRelational(q) ==
    IF pool THEN [q EXCEPT !.pc = "grid_query"] ELSE Done(q, GridUnavailable)

\* The stores whose rows, as returned, hold a parseable geometry
Yields(q, store, rows) ==
    IF \E i \in 1..Len(rows) : parseGeometry(rows[i].geom) # NoGeometry
    THEN q.yield \cup {store} ELSE q.yield

\* if (features.length) return res.json({ type: 'FeatureCollection', features })
GridAnswer(q, features) ==
    IF Len(features) > 0 THEN Done(q, Rows(features)) ELSE GridCellsRelational(q)

\* GET /api/grid-cells arrives: no token is asked for. Nothing outside the
\* inner try blocks can throw, so the 500 of the outer catch is never sent.
GetGridCells(r) ==
    /\ Free(r)
    /\ LET q == [Idle EXCEPT !.route = "grid"]
       IN  req' = [req EXCEPT ![r] =
               IF supabaseAdmin THEN [q EXCEPT !.pc = "grid_table"]
               ELSE GridCellsRelational(q)]
    /\ UNCHANGED <<config, accounts, pool, probe, relational, checklists_id_seq, tx, managed, clock, subs>>

\* await supabaseAdmin.from('grid_cells').select('id, geom, properties')
\* settles. With rows, api/index.js goes on to count the checklists and
\* tandonia_backend.js answers; without, the relational store is next.
\* datasets: the results the select may give.
SupabaseGridCells(r, datasets) ==
    /\ At(r, "grid_table")
    /\ \E outcome \in {"ok", "error", "throw"}, data \in datasets :
         LET q == [req[r] EXCEPT !.touched = @ \cup {"sb"}, !.data = data,
                                 !.yield = Yields(req[r], "sb", data)]
         IN  /\ outcome # "ok" => data = << >>
             /\ req' = [req EXCEPT ![r] =
                   IF outcome = "ok" /\ Len(data) > 0
                   THEN IF backend = Api THEN [q EXCEPT !.pc = "grid_counts"]
                        ELSE GridAnswer(q, SupabaseFeatures(data, << >>))
                   ELSE GridCellsRelational(q)]
    /\ UNCHANGED <<config, accounts, pool, probe, relational, checklists_id_seq, tx, managed, clock, subs>>

\* await supabaseAdmin.from('checklists').select('grid_cell_id') settles:
\* the counts are taken from its rows; when it reports an error or throws,
\* checklistCounts stays {}
SupabaseChecklistCounts(r) ==
    /\ At(r, "grid_counts")
    /\ \E outcome \in {"ok", "error", "throw"} :
         LET q == [req[r] EXCEPT !.error = IF outcome = "ok" THEN "" ELSE "lookup failed"]
             checklistCounts == IF outcome = "ok" THEN ChecklistCounts(sb_checklists)
                                ELSE << >>
         IN  req' = [req EXCEPT ![r] =
                 GridAnswer(q, SupabaseFeatures(q.data, checklistCounts))]
    /\ UNCHANGED <<config, accounts, pool, probe, relational, checklists_id_seq, tx, managed, clock, subs>>

\* await pool.query(...) of the grid cells settles. The join of api/index.js
\* is refused when its two columns are of different types.
\* tables: the contents grid_cells may have.
GridCellsQuery(r, tables) ==
    /\ At(r, "grid_query")
    /\ \E outcome \in {"ok", "error"}, table \in tables :
         LET refused == backend = Api /\ ~JoinComparable
             failed == outcome = "error" \/ refused
             q == [req[r] EXCEPT !.touched = @ \cup {"pg"},
                                 !.data = IF failed THEN << >> ELSE table,
                                 !.yield = IF failed THEN @ ELSE Yields(req[r], "pg", table)]
             features == PostgresFeatures(SelectGridCells(table))
         IN  /\ failed => table = << >>
             /\ req' = [req EXCEPT ![r] =
                   IF ~failed /\ Len(features) > 0 THEN Done(q, Rows(features))
                   ELSE Done(q, GridUnavailable)]
    /\ UNCHANGED <<config, accounts, pool, probe, relational, checklists_id_seq, tx, managed, clock, subs>>

\* ------------------------------------------------------------------------
\* Preflights and unparseable bodies
\* ------------------------------------------------------------------------
\* An OPTIONS request: app.use(cors(...)) answers the preflight of an origin
\* its callback allowed; one it denied is passed on to app.options('*',
\* cors()), whose default configuration answers with the header '*'
Preflight(r) ==
    /\ Free(r)
    /\ \E origin \in Origins :
         req' = [req EXCEPT ![r] =
             Done([Idle EXCEPT !.route = "options", !.origin = origin,
                               !.allowOrigin = IF originCallback(origin) THEN origin
                                               ELSE "*"],
                  [NoResp EXCEPT !.status = 204])]
    /\ UNCHANGED <<config, accounts, pool, probe, relational, checklists_id_seq, tx, managed, clock, subs>>

\* A POST whose body is not JSON: express.json(), registered before the
\* cors middleware, passes its 400 error to the error handler, which sets
\* the CORS headers itself and answers { error: err.message }
PostMalformedJson(r) ==
    /\ Free(r)
    /\ \E origin \in Origins :
         req' = [req EXCEPT ![r] =
             Done([Idle EXCEPT !.route = "post", !.origin = origin,
                               !.allowOrigin = ErrorHandlerHeader(origin)],
                  Error(400, "Unexpected token in JSON"))]
    /\ UNCHANGED <<config, accounts, pool, probe, relational, checklists_id_seq, tx, managed, clock, subs>>

\* ------------------------------------------------------------------------
\* GET /api/news
\* ------------------------------------------------------------------------
NewsLimit == 50

\* A row of the news table
NewsRow(id, published, created) ==
    [id |-> id, published_date |-> published, created_at |-> Num(created)]

\* News tables: of n rows published in the order they were inserted, of
\* up to 50 rows inserted in the opposite order, and one with a row that
\* has no publish date
NewsSizes == {0, 1, 3, NewsLimit, MaxNewsRows}

NewsTables ==
    {[i \in 1..n |-> NewsRow(i, Num(i), i)] : n \in NewsSizes}
    \cup {[i \in 1..n |-> NewsRow(i, Num(n + 1 - i), n + 1 - i)] : n \in {3, NewsLimit}}
    \cup {<<NewsRow(1, Null, 9), NewsRow(2, Num(5), 5), NewsRow(3, Num(7), 7)>>}

\* The subsets of S with k elements
RECURSIVE KSubsets(_, _)
KSubsets(S, k) ==
    IF k = 0 THEN {{}}
    ELSE UNION {{T \cup {x} : T \in KSubsets({y \in S : y > x}, k - 1)} : x \in S}

\* The rows of a table without those at the given positions
Without(rows, omitted) ==
    LET kept == SelectSeq([i \in 1..Len(rows) |-> i], LAMBDA i : i \notin omitted)
    IN  [j \in 1..Len(kept) |-> rows[kept[j]]]

\* .select('*').limit(50): no order is asked for, so any 50 rows of a
\* larger table may come back
SelectLimit(table, limit) ==
    {Without(table, omitted) :
        omitted \in KSubsets(1..Len(table),
                             IF Len(table) > limit THEN Len(table) - limit ELSE 0)}

\* row.published_date || row.published_at || row.date || row.Date || null
normalizeNewsRow(row, idx) ==
    [id |-> row.id,
     published_date |-> IF Truthy(row.published_date) THEN row.published_date ELSE Null]

\* new Date(a.published_date || 0).getTime()
DateTime(item) == IF Truthy(item.published_date) THEN item.published_date.n ELSE 0

\* normalized.sort((a, b) => bDate - aDate)
SortNewestFirst(items) == SortSeq(items, LAMBDA a, b : DateTime(a) > DateTime(b))

\* COALESCE(news.published_date, news.date, news."Date", news.created_at)
NewsOrderKey(row) ==
    IF row.published_date = Null THEN row.created_at.n ELSE row.published_date.n

\* ORDER BY COALESCE(...) DESC LIMIT 50
SelectNews(table) ==
    LET ordered == SortSeq(table, LAMBDA a, b : NewsOrderKey(a) > NewsOrderKey(b))
    IN  SubSeq(ordered, 1, IF Len(ordered) > NewsLimit THEN NewsLimit ELSE Len(ordered))

Normalized(rows) == [i \in 1..Len(rows) |-> normalizeNewsRow(rows[i], i - 1)]

NewsUnavailable == Error(503, "News data unavailable")

\* if (pool) { ... } return res.status(503)
NewsRelational(q) ==
    IF pool THEN [q EXCEPT !.pc = "news_query"] ELSE Done(q, NewsUnavailable)

\* The outer catch of the news handler: detail is sent in either case, the
\* stack with the debug flag only
NewsServerError ==
    [Error(500, "Server error") EXCEPT !.detail = "store message",
                                       !.stack = IF DEBUG_API_ERRORS THEN "stack" ELSE ""]

\* GET /api/news arrives from a page of another origin: no token is asked for
GetNews(r) ==
    /\ Free(r)
    /\ \E origin \in Origins \ {NoOrigin} :
         LET q == ThroughCors([Idle EXCEPT !.route = "news"], origin)
         IN  req' = [req EXCEPT ![r] =
                 IF supabaseAdmin THEN [q EXCEPT !.pc = "news_table"]
                 ELSE NewsRelational(q)]
    /\ UNCHANGED <<config, accounts, pool, probe, relational, checklists_id_seq, tx, managed, clock, subs>>

\* await supabaseAdmin.from('news').select('*').limit(50) settles. The call
\* is awaited in the outer try: when it throws, the outer catch answers.
\* tables: the contents the news table may have.
SupabaseNews(r, tables) ==
    /\ At(r, "news_table")
    /\ \E outcome \in {"ok", "error", "throw"}, table \in tables :
         /\ outcome # "ok" => table = << >>
         /\ \E data \in SelectLimit(table, NewsLimit) :
              LET q == [req[r] EXCEPT !.touched = @ \cup {"sb"}, !.data = table]
              IN  req' = [req EXCEPT ![r] =
                      IF outcome = "throw" THEN Done(q, NewsServerError)
                      ELSE IF outcome = "ok" /\ Len(data) > 0
                           THEN Done(q, Rows(SortNewestFirst(Normalized(data))))
                           ELSE NewsRelational(q)]
    /\ UNCHANGED <<config, accounts, pool, probe, relational, checklists_id_seq, tx, managed, clock, subs>>

\* await pool.query(news) settles
NewsQuery(r, tables) ==
    /\ At(r, "news_query")
    /\ \E outcome \in {"ok", "error"}, table \in tables :
         LET q == [req[r] EXCEPT !.touched = @ \cup {"pg"}, !.data = table]
             rows == SelectNews(table)
         IN  /\ outcome # "ok" => table = << >>
             /\ req' = [req EXCEPT ![r] =
                   IF outcome = "ok" /\ Len(rows) > 0 THEN Done(q, Rows(Normalized(rows)))
                   ELSE Done(q, NewsUnavailable)]
    /\ UNCHANGED <<config, accounts, pool, probe, relational, checklists_id_seq, tx, managed, clock, subs>>

\* ------------------------------------------------------------------------
\* POST /api/auth/register, POST /api/auth/login, GET /health
\* ------------------------------------------------------------------------
Emails == {"ann@example.org", "bob@example.org"}

\* Registrations in flight
Registering == {r \in Req : req[r].pc \in {"reg_select", "reg_hash", "reg_insert"}}

\* SELECT * FROM users WHERE email = $1
SelectUser(email) == {u \in users : u.email = email}

ServerError == Error(500, "Server error")

\* The first pool.query(...) of an auth handler is evaluated. api/index.js
\* answers 503 before it when pool is null; in tandonia_backend.js the call
\* throws inside the try block and the catch answers 500.
AuthStart(q, pc) ==
    IF pool THEN [q EXCEPT !.pc = pc]
    ELSE IF backend = Api THEN Done(q, Error(503, "Database unavailable"))
    ELSE Done(q, ServerError)

\* POST /api/auth/register arrives: no token is asked for. cap: the number
\* of registrations a behaviour may take up.
PostRegister(r, cap) ==
    /\ Free(r)
    /\ users_id_seq + Cardinality(Registering) < cap
    /\ \E email \in Emails :
         LET q == [Idle EXCEPT !.route = "register", !.email = email,
                               !.known = SelectUser(email) # {}]
         IN  req' = [req EXCEPT ![r] = AuthStart(q, "reg_select")]
    /\ UNCHANGED <<config, accounts, pool, probe, relational, checklists_id_seq, tx, managed, clock, subs>>

\* the lookup of the email settles: 400 when it returns a row, else
\* bcrypt.hash is awaited
RegisterSelect(r) ==
    /\ At(r, "reg_select")
    /\ \E ok \in BOOLEAN :
         LET q == [req[r] EXCEPT !.touched = @ \cup {"pg"}]
         IN  req' = [req EXCEPT ![r] =
                 IF ~ok THEN Done(q, ServerError)
                 ELSE IF SelectUser(q.email) # {}
                      THEN Done(q, Error(400, "User already exists"))
                 ELSE [q EXCEPT !.pc = "reg_hash"]]
    /\ UNCHANGED <<config, accounts, pool, probe, relational, checklists_id_seq, tx, managed, clock, subs>>

\* bcrypt.hash settles and the INSERT is sent with pool.query(...)
RegisterHash(r) ==
    /\ At(r, "reg_hash")
    /\ \E ok \in BOOLEAN :
         req' = [req EXCEPT ![r] =
             IF ok THEN NextQuery(req[r], "reg_insert") ELSE Done(req[r], ServerError)]
    /\ UNCHANGED <<config, accounts, pool, probe, relational, checklists_id_seq, tx, managed, clock, subs>>

\* INSERT INTO users (...) RETURNING id, email, name settles;
\* res.json({ user, token })
RegisterInsert(r) ==
    /\ At(r, "reg_insert")
    /\ \E ok \in BOOLEAN :
         LET q == req[r]
             id == users_id_seq + 1
         IN  IF ok
             THEN /\ users' = users \cup {[id |-> id, email |-> q.email]}
                  /\ users_id_seq' = id
                  /\ req' = [req EXCEPT ![r] =
                        Done(q, [NoResp EXCEPT !.status = 200, !.userId = id])]
             ELSE /\ req' = [req EXCEPT ![r] = Done(q, ServerError)]
                  /\ UNCHANGED accounts
    /\ UNCHANGED <<config, pool, probe, relational, checklists_id_seq, tx, managed, clock, subs>>

\* POST /api/auth/login arrives
PostLogin(r) ==
    /\ Free(r)
    /\ \E email \in Emails :
         req' = [req EXCEPT ![r] =
             AuthStart([Idle EXCEPT !.route = "login", !.email = email], "login_select")]
    /\ UNCHANGED <<config, accounts, pool, probe, relational, checklists_id_seq, tx, managed, clock, subs>>

\* the lookup of the user settles: 401 without a row
LoginSelect(r) ==
    /\ At(r, "login_select")
    /\ \E ok \in BOOLEAN :
         LET q == [req[r] EXCEPT !.touched = @ \cup {"pg"}]
             found == SelectUser(q.email)
         IN  req' = [req EXCEPT ![r] =
                 IF ~ok THEN Done(q, ServerError)
                 ELSE IF found = {} THEN Done(q, Error(401, "Invalid credentials"))
                 ELSE [q EXCEPT !.pc = "login_compare",
                                !.resp.userId = (CHOOSE u \in found : TRUE).id]]
    /\ UNCHANGED <<config, accounts, pool, probe, relational, checklists_id_seq, tx, managed, clock, subs>>

\* bcrypt.compare settles: the token for the password of the user, 401 for
\* another, 500 when it throws
LoginCompare(r) ==
    /\ At(r, "login_compare")
    /\ \E outcome \in {"valid", "invalid", "throw"} :
         LET q == req[r]
         IN  req' = [req EXCEPT ![r] =
                 IF outcome = "valid"
                 THEN Done(q, [NoResp EXCEPT !.status = 200, !.userId = q.resp.userId])
                 ELSE IF outcome = "invalid" THEN Done(q, Error(401, "Invalid credentials"))
                 ELSE Done(q, ServerError)]
    /\ UNCHANGED <<config, accounts, pool, probe, relational, checklists_id_seq, tx, managed, clock, subs>>

\* GET /health: res.json({ ok: true, uptime_seconds }) without a store
GetHealth(r) ==
    /\ Free(r)
    /\ req' = [req EXCEPT ![r] =
          Done([Idle EXCEPT !.route = "health"], [NoResp EXCEPT !.status = 200])]
    /\ UNCHANGED <<config, accounts, pool, probe, relational, checklists_id_seq, tx, managed, clock, subs>>

\* The steps of a registration or login in flight
AuthStep(r) ==
    \/ RegisterSelect(r)
    \/ RegisterHash(r)
    \/ RegisterInsert(r)
    \/ LoginSelect(r)
    \/ LoginCompare(r)

\* ------------------------------------------------------------------------
\* The insert_checklist database function
\* ------------------------------------------------------------------------
\* The two files that define public.insert_checklist(payload jsonb); the one
\* run last is the one installed
RpcFiles == {"setup_complete.sql", "supabase/sql/insert_checklist.sql"}

\* ST_SetSRID(ST_MakePoint(lng, lat), 4326)
Wgs84(lng, lat) == [x |-> lng, y |-> lat, srid |-> 4326]

\* ST_Transform(point, 31370): Belgian Lambert 72, here as its linear
\* approximation around 51 N 4 E, in metres
Transform31370(p) ==
    [x |-> 122000 + 70000 * (p.x - 4), y |-> 193000 + 111000 * (p.y - 51), srid |-> 31370]

\* The geometry the function of the given file stores for a coordinate
RpcGeom(file, lng, lat) ==
    IF file = "setup_complete.sql" THEN Transform31370(Wgs84(lng, lat))
    ELSE MakePoint(lng, lat)

\* RAISE EXCEPTION when grid_cell_id is missing; (value)::int raises for a
\* species count that is a JSON string
RpcRaises(body) ==
    \/ body.gridCellId.t = "undefined"
    \/ \E i \in 1..Len(body.species) : body.species[i].count.t # "number"

\* The loop over jsonb_each(payload -> 'locations'): a row for every key
\* whose value has lat and lng, tagged with the key
RpcLocationRows(file, id, locations) ==
    {[checklist_id |-> id, location_type |-> k,
      geom |-> RpcGeom(file, locations[k].lng.n, locations[k].lat.n)] :
        k \in {j \in DOMAIN locations :
                  locations[j].lat.t # "undefined" /\ locations[j].lng.t # "undefined"}}

\* The loop over jsonb_each(payload -> 'species'): a row for every count > 0
RpcSpeciesRows(id, species) ==
    {[checklist_id |-> id, species_name |-> e.name, count |-> e.count.n] :
        e \in {x \in Range(species) : x.count.n > 0}}

\* select insert_checklist(payload): the function body runs as one
\* statement, so its rows appear together or, when it raises, not at all
RpcInsertChecklist(r, payloads, cap) ==
    /\ Free(r)
    /\ (clock - 1) + Cardinality(Unstamped) < cap
    /\ \E file \in RpcFiles, in \in payloads :
         LET user == in[1]
             body == in[2]
             id == NextVal(checklists_id_seq)
             q == [Idle EXCEPT !.route = "rpc", !.user = user, !.body = body,
                               !.touched = {"pg"}]
             row == [id |-> id, user_id |-> user, grid_cell_id |-> body.gridCellId.s,
                     time_spent_minutes |-> ToNumber(body.timeSpent), submitted_at |-> clock]
         IN  IF RpcRaises(body)
             THEN /\ req' = [req EXCEPT ![r] = Done(q, Error(400, "insert_checklist raised"))]
                  /\ UNCHANGED <<relational, checklists_id_seq, clock, subs>>
             ELSE /\ checklists' = Insert(checklists, {row})
                  /\ checklist_locations' =
                        Insert(checklist_locations, RpcLocationRows(file, id, body.locations))
                  /\ species_observations' =
                        Insert(species_observations, RpcSpeciesRows(id, body.species))
                  /\ checklists_id_seq' = id
                  /\ clock' = clock + 1
                  /\ subs' = subs \cup {Sub("rpc", id, user, body, "committed")}
                  /\ req' = [req EXCEPT ![r] = Done([q EXCEPT !.cid = id], Submitted(id))]
    /\ UNCHANGED <<config, accounts, pool, probe, tx, managed>>

\* ------------------------------------------------------------------------
\* The import-geojson edge function
\* ------------------------------------------------------------------------
NaN == [t |-> "NaN", n |-> 0, s |-> ""]

\* parseInt(text, 10) for the texts of the model
parseInt(text) ==
    CASE text = "500" -> Num(500)
      [] text = "2" -> Num(2)
      [] text = "1" -> Num(1)
      [] text = "0" -> Num(0)
      [] text = "-1" -> Num(-1)
      [] OTHER -> NaN

\* The chunk query parameter: absent, empty, positive, zero, negative, not
\* a number
ChunkParams == {Undefined, Str(""), Str("2"), Str("1"), Str("0"), Str("-1"), Str("abc")}

\* parseInt(params.get('chunk') || '500', 10)
chunkSize(param) == parseInt(IF Truthy(param) THEN param.s ELSE "500")

\* The files: FeatureCollections of 0 to MaxFeatures features
FeatureLists == {[k \in 1..n |-> k] : n \in 0..MaxFeatures}

\* a < b and a + b on numbers that may be NaN
LessThan(a, b) == a.t = "number" /\ b.t = "number" /\ a.n < b.n
Plus(a, b) == IF a.t = "number" /\ b.t = "number" THEN Num(a.n + b.n) ELSE NaN

\* An argument of slice as an index into an array of length len: NaN is 0,
\* a negative index counts from the end
RelativeIndex(v, len) ==
    LET k == IF v.t = "number" THEN v.n ELSE 0
    IN  IF k < 0 THEN (IF len + k < 0 THEN 0 ELSE len + k)
        ELSE (IF k > len THEN len ELSE k)

\* features.slice(start, end)
Slice(features, start, end) ==
    SubSeq(features, RelativeIndex(start, Len(features)) + 1,
           RelativeIndex(end, Len(features)))

\* The loop test i < features.length, then either the next fetch of the
\* import function with its slice or the 200 answer
LoopTest(q) ==
    IF LessThan(q.loop.i, Num(Len(q.data)))
    THEN LET slice == Slice(q.data, q.loop.i, Plus(q.loop.i, q.loop.chunkSize))
         IN  [q EXCEPT !.pc = "import_rpc", !.loop.slice = slice,
                       !.loop.sent = @ \o slice]
    ELSE Done(q, [NoResp EXCEPT !.status = 200])

\* The request arrives: 500 when the service credentials are missing, else
\* the file is fetched from storage
GetImportGeojson(r) ==
    /\ Free(r)
    /\ \E param \in ChunkParams, configured \in BOOLEAN :
         LET q == [Idle EXCEPT !.route = "import", !.loop.chunkSize = chunkSize(param),
                               !.loop.i = Num(0)]
         IN  req' = [req EXCEPT ![r] =
                 IF configured THEN [q EXCEPT !.pc = "import_fetch"]
                 ELSE Done(q, Error(500, "Server misconfigured"))]
    /\ UNCHANGED <<config, accounts, pool, probe, relational, checklists_id_seq, tx, managed, clock, subs>>

\* The fetch of the file settles: 502 when it is refused, 400 when the body
\* is no FeatureCollection, 500 when the fetch throws
ImportFetch(r) ==
    /\ At(r, "import_fetch")
    /\ \E outcome \in {"ok", "refused", "other", "throw"}, features \in FeatureLists :
         LET q == req[r]
         IN  /\ outcome # "ok" => features = << >>
             /\ req' = [req EXCEPT ![r] =
                   CASE outcome = "ok" -> LoopTest([q EXCEPT !.data = features])
                     [] outcome = "refused" -> Done(q, Error(502, "Failed to fetch geojson"))
                     [] outcome = "other" -> Done(q, Error(400, "Not a FeatureCollection"))
                     [] OTHER -> Done(q, Error(500, "fetch failed"))]
    /\ UNCHANGED <<config, accounts, pool, probe, relational, checklists_id_seq, tx, managed, clock, subs>>

\* The call of import_grid_cells for the current slice settles: 502 when it
\* is refused, 500 when it throws; else totalInserted grows by the rows of
\* the slice and i by chunkSize
ImportRpc(r) ==
    /\ At(r, "import_rpc")
    /\ req[r].loop.i.t = "number" => req[r].loop.i.n > -MaxBackward
    /\ \E outcome \in {"ok", "refused", "throw"} :
         LET q == req[r]
         IN  req' = [req EXCEPT ![r] =
                 CASE outcome = "ok" ->
                        LoopTest([q EXCEPT !.loop.totalInserted = @ + Len(q.loop.slice),
                                           !.loop.i = Plus(@, q.loop.chunkSize)])
                   [] outcome = "refused" -> Done(q, Error(502, "RPC call failed"))
                   [] OTHER -> Done(q, Error(500, "fetch failed"))]
    /\ UNCHANGED <<config, accounts, pool, probe, relational, checklists_id_seq, tx, managed, clock, subs>>

\* ------------------------------------------------------------------------
\* Specifications
\* ------------------------------------------------------------------------
\* The steps of a submission in flight
SubmitStep(r) ==
    \/ SupabaseInsertChecklist(r)
    \/ PoolConnect(r)
    \/ TxBegin(r)
    \/ TxInsertChecklist(r)
    \/ TxInsertLocation(r)
    \/ TxInsertSpecies(r)
    \/ TxCommit(r)
    \/ TxRollback(r)

\* The steps of a checklist reader in flight
ReadStep(r) ==
    \/ ListQuery(r)
    \/ SupabaseList(r)
    \/ DetailChecklist(r)
    \/ DetailLocations(r)
    \/ DetailSpecies(r)
    \/ SupabaseDetail(r)

\* Concurrent requests of verified users: slot r1 takes submissions, slot
\* r2 takes any request.
Next ==
    \/ ProbeSettles
    \/ \E r \in Req : PostChecklists(r, ConcInputs, MaxChecklists)
    \/ GetChecklists("r2", GoodTokens)
    \/ GetChecklist("r2", GoodTokens)
    \/ \E r \in Req : SubmitStep(r) \/ ReadStep(r) \/ Complete(r)

Spec == Init /\ [][Next]_vars

\* Tokens of the submissions of the body-rich specification: a verified
\* user's, and a locally signed token whose payload carries no id
SeqTokens ==
    {t \in GoodTokens : t.uid = "u1"}
    \cup {[present |-> TRUE, sb |-> "reject", jwt |-> TRUE, uid |-> ""]}

\* One request at a time, every body
SeqNext ==
    \/ ProbeSettles
    \/ PostChecklists("r1", SeqTokens \X Bodies, SeqMaxChecklists)
    \/ GetChecklists("r1", GoodTokens)
    \/ GetChecklist("r1", GoodTokens)
    \/ SubmitStep("r1") \/ ReadStep("r1") \/ Complete("r1")

SeqSpec == Init /\ [][SeqNext]_vars

\* One request at a time, every token, one body
AuthBodies == {Body(Str("cell-7"), ("forest" :> P1), <<Entry("Arion ater", Num(3))>>, Num(15))}

AuthNext ==
    \/ ProbeSettles
    \/ PostChecklists("r1", Tokens \X AuthBodies, SeqMaxChecklists)
    \/ GetChecklists("r1", Tokens)
    \/ GetChecklist("r1", Tokens)
    \/ SubmitStep("r1") \/ ReadStep("r1") \/ Complete("r1")

AuthSpec == Init /\ [][AuthNext]_vars

\* The species listing beside one submission of a verified user
SpeciesInputs == {t \in GoodTokens : t.uid = "u1"} \X AuthBodies

SpeciesNext ==
    \/ ProbeSettles
    \/ PostChecklists("r1", SpeciesInputs, SeqMaxChecklists)
    \/ GetSpecies("r1")
    \/ SpeciesTableQuery("r1", SpeciesTableData)
    \/ SpeciesQuery("r1", CatalogData)
    \/ SubmitStep("r1") \/ Complete("r1")

SpeciesSpec == Init /\ [][SpeciesNext]_vars

\* The grid-cell listing of either server file beside submissions of a
\* verified user
GridNext ==
    \/ ProbeSettles
    \/ PostChecklists("r1", GridInputs, MaxChecklists)
    \/ GetGridCells("r1")
    \/ SupabaseGridCells("r1", GridCellsData)
    \/ SupabaseChecklistCounts("r1")
    \/ GridCellsQuery("r1", GridCellsTable)
    \/ SubmitStep("r1") \/ Complete("r1")

GridSpec == Start({Api, Standalone}, {FALSE}) /\ [][GridNext]_vars

\* The public news listing, preflights and unparseable bodies, from any
\* origin, with the debug flag on or off
PublicNext ==
    \/ ProbeSettles
    \/ Preflight("r1")
    \/ PostMalformedJson("r1")
    \/ GetNews("r1")
    \/ SupabaseNews("r1", NewsTables)
    \/ NewsQuery("r1", NewsTables)
    \/ Complete("r1")

PublicSpec == Start({Api}, BOOLEAN) /\ [][PublicNext]_vars

\* Submissions of a verified user to either server file, and the pool's
\* error event. Every awaited call settles and every response is delivered;
\* whether a client sends a request is up to the client.
LiveNext ==
    \/ ProbeSettles
    \/ PoolEmitsError
    \/ PostChecklists("r1", GridInputs, MaxChecklists)
    \/ StandalonePostChecklists("r1", GridInputs, MaxChecklists)
    \/ SubmitStep("r1") \/ Complete("r1")

LiveSpec ==
    /\ Start({Api, Standalone}, {FALSE})
    /\ [][LiveNext]_vars
    /\ WF_vars(ProbeSettles)
    /\ WF_vars(SubmitStep("r1"))
    /\ WF_vars(Complete("r1"))

\* News tables of a few rows
SmallNewsTables == {t \in NewsTables : Len(t) <= 3}

\* The results of at most one row
Few(datasets) == {d \in datasets : Len(d) <= 1}

\* One request at a time to any route of api/index.js; the tables behind
\* the public listings hold few rows
FrameNext ==
    \/ ProbeSettles
    \/ PostChecklists("r1", SpeciesInputs, MaxChecklists)
    \/ GetChecklists("r1", GoodTokens)
    \/ GetChecklist("r1", GoodTokens)
    \/ GetGridCells("r1")
    \/ SupabaseGridCells("r1", Few(GridCellsData))
    \/ SupabaseChecklistCounts("r1")
    \/ GridCellsQuery("r1", Few(GridCellsTable))
    \/ GetSpecies("r1")
    \/ SpeciesTableQuery("r1", Few(SpeciesTableData))
    \/ SpeciesQuery("r1", {t \in CatalogData : Cardinality(t) <= 1})
    \/ GetNews("r1")
    \/ SupabaseNews("r1", SmallNewsTables)
    \/ NewsQuery("r1", SmallNewsTables)
    \/ GetHealth("r1")
    \/ PostRegister("r1", SeqMaxUsers)
    \/ PostLogin("r1")
    \/ SubmitStep("r1") \/ ReadStep("r1") \/ AuthStep("r1") \/ Complete("r1")

FrameSpec == Init /\ [][FrameNext]_vars

\* The two relational write paths: the transaction of api/index.js and the
\* database function, one call at a time
RpcPayloads == {"u1"} \X {b \in Bodies : b.timeSpent = Num(15)}

WriteNext ==
    \/ ProbeSettles
    \/ PostChecklists("r1", SeqTokens \X Bodies, SeqMaxChecklists)
    \/ RpcInsertChecklist("r1", RpcPayloads, SeqMaxChecklists)
    \/ GetChecklists("r1", GoodTokens)
    \/ GetChecklist("r1", GoodTokens)
    \/ SubmitStep("r1") \/ ReadStep("r1") \/ Complete("r1")

WriteSpec == Init /\ [][WriteNext]_vars

\* The steps of a detail reader or a registration in flight
DetailOrRegisterStep(r) ==
    \/ DetailChecklist(r)
    \/ DetailLocations(r)
    \/ DetailSpecies(r)
    \/ SupabaseDetail(r)
    \/ RegisterSelect(r)
    \/ RegisterHash(r)
    \/ RegisterInsert(r)

\* The pool check settles while a submission (slot r1) and a detail reader
\* or a registration (slot r2) are in flight on api/index.js. Every response
\* is delivered, and the event loop runs the continuation of every awaited
\* call that settled: a step that is ready again and again is taken.
ProbeNext ==
    \/ ProbeSettles
    \/ PostChecklists("r1", {i \in ConcInputs : i[1].uid = "u1"}, SeqMaxChecklists)
    \/ GetChecklist("r2", {t \in GoodTokens : t.uid = "u1"})
    \/ PostRegister("r2", SeqMaxUsers)
    \/ SubmitStep("r1")
    \/ DetailOrRegisterStep("r2")
    \/ \E r \in Req : Complete(r)

ProbeSpec ==
    /\ Start({Api}, {FALSE})
    /\ [][ProbeNext]_vars
    /\ SF_vars(ProbeSettles)
    /\ SF_vars(SubmitStep("r1"))
    /\ SF_vars(DetailOrRegisterStep("r2"))
    /\ \A r \in Req : WF_vars(Complete(r))

\* The import function: every fetch settles and every response is delivered
ImportNext ==
    \/ GetImportGeojson("r1")
    \/ ImportFetch("r1")
    \/ ImportRpc("r1")
    \/ Complete("r1")

ImportSpec ==
    /\ Init
    /\ [][ImportNext]_vars
    /\ WF_vars(ImportFetch("r1"))
    /\ WF_vars(ImportRpc("r1"))
    /\ WF_vars(Complete("r1"))

\* Concurrent registrations and logins on either server file
RegisterNext ==
    \/ ProbeSettles
    \/ \E r \in Req : PostRegister(r, MaxUsers) \/ PostLogin(r) \/ AuthStep(r) \/ Complete(r)

RegisterSpec == Start({Api, Standalone}, {FALSE}) /\ [][RegisterNext]_vars

\* ------------------------------------------------------------------------
\* Properties
\* ------------------------------------------------------------------------
\* The store a finished reader consulted
StoreOf(q) == IF "pg" \in q.touched THEN "pg" ELSE "sb"

\* The habitats of a submission: urban stands for anthropogenous when the
\* latter is not submitted
Habitats(body) ==
    (DOMAIN body.locations \ {"urban"})
    \cup (IF "urban" \in DOMAIN body.locations THEN {"anthropogenous"} ELSE {})

HabitatCoordinate(body, k) ==
    IF k \in DOMAIN body.locations THEN body.locations[k] ELSE body.locations["urban"]

\* What a reader is to return for a submission: one entry per habitat, and
\* the species entries with a positive count
SubmittedLocations(body) ==
    {[location_type |-> k, lat |-> HabitatCoordinate(body, k).lat,
      lng |-> HabitatCoordinate(body, k).lng] : k \in Habitats(body)}

SubmittedSpecies(body) ==
    {[species_name |-> e.name, count |-> ToNumber(e.count)] :
        e \in {x \in Range(body.species) : GreaterThanZero(x.count)}}

\* The species entries of a detail response, counts as numbers
ReturnedSpecies(resp) ==
    {[species_name |-> e.species_name, count |-> ToNumber(e.count)] : e \in Range(resp.species)}

\* The committed rows of the relational store that carry a checklist id
HeaderRows(id) == {c \in checklists : c.id = id}
LocationRows(id) == {l \in checklist_locations : l.checklist_id = id}
SpeciesRows(id) == {o \in species_observations : o.checklist_id = id}

\* The child rows a committed relational submission has
ChildrenComplete(s) ==
    /\ {[location_type |-> l.location_type, lat |-> Num(l.geom.y), lng |-> Num(l.geom.x)] :
           l \in LocationRows(s.id)} = SubmittedLocations(s.body)
    /\ {[species_name |-> o.species_name, count |-> o.count] : o \in SpeciesRows(s.id)}
          = SubmittedSpecies(s.body)

\* C1: a relational submission is all-or-nothing. A submission that has not
\* committed (in flight, or failed at any statement after BEGIN and answered
\* 500) has no header, location or species row in the committed store; every
\* committed header has all the children of its submission; and a detail
\* read answered from the relational store returns a header with all of its
\* children.
C1_AllOrNothing ==
    /\ \A s \in subs :
         s.store = "pg" /\ s.state # "committed" =>
            HeaderRows(s.id) = {} /\ LocationRows(s.id) = {} /\ SpeciesRows(s.id) = {}
    /\ \A c \in checklists :
         \E s \in subs :
            s.store = "pg" /\ s.id = c.id /\ s.state = "committed" /\ ChildrenComplete(s)
    /\ \A r \in Req :
         LET q == req[r]
         IN  q.pc = "done" /\ q.route = "detail" /\ q.resp.status = 200 /\ StoreOf(q) = "pg" =>
                \E s \in subs :
                   /\ s.store = "pg" /\ s.id = q.id /\ s.state = "committed"
                   /\ q.resp.locations = SubmittedLocations(s.body)
                   /\ ReturnedSpecies(q.resp) = SubmittedSpecies(s.body)

\* A submission failed at COMMIT, after its header and children were
\* inserted, and was answered 500 while another request is in flight
C1_Witness ==
    \E r \in Req :
       /\ req[r].pc = "done" /\ req[r].route = "submit" /\ req[r].resp.status = 500
       /\ req[r].cid # 0 /\ req[r].resp.detail = "COMMIT failed"
       /\ \E o \in Req \ {r} : req[o].pc \notin {"idle", "done"}

\* A body the submission contract refuses: gridCellId missing or empty, or
\* timeSpent missing, not a number, zero or negative
InvalidBody(body) == ~Truthy(body.gridCellId) \/ ~GreaterThanZero(body.timeSpent)

\* C2: every submission of an authenticated user whose gridCellId is missing
\* or empty, or whose timeSpent is missing, non-numeric, zero or negative, is
\* answered 400 and reaches no store: no row in checklists,
\* checklist_locations or species_observations and no managed-backend record.
C2_InvalidRejected ==
    \A r \in Req :
       LET q == req[r]
       IN  q.route = "submit" /\ q.authed /\ q.user # "" /\ InvalidBody(q.body) =>
              /\ q.pc = "done"
              /\ q.resp.status = 400
              /\ q.touched = {} /\ q.cid = 0

\* The habitats and positive species entries of the submission a detail
\* response answers
ReadBack(q, s) ==
    /\ q.resp.locations = SubmittedLocations(s.body)
    /\ ReturnedSpecies(q.resp) = SubmittedSpecies(s.body)
    /\ \A e \in Range(q.resp.species) : GreaterThanZero(e.count)

\* C3: a detail read by the submitting user after a successful submission
\* with 1 to 3 habitats returns exactly one entry per submitted habitat with
\* its coordinate, and exactly the species entries whose count is > 0,
\* whichever store handled the submission.
C3_RoundTrip ==
    \A r \in Req :
       LET q == req[r]
       IN  q.pc = "done" /\ q.route = "detail" /\ q.resp.status = 200 =>
              \E s \in subs :
                 /\ s.store = StoreOf(q) /\ s.id = q.id /\ s.user = q.user
                 /\ s.state = "committed"
                 /\ Cardinality(Habitats(s.body)) \in 1..3 => ReadBack(q, s)

\* The coordinate kept for anthropogenous by a submission that sends urban
AnthropogenousOf(body) ==
    IF "anthropogenous" \in DOMAIN body.locations
    THEN body.locations["anthropogenous"] ELSE body.locations["urban"]

\* C4: a committed submission with urban and no anthropogenous entry has a
\* stored location tagged anthropogenous at the submitted urban coordinate;
\* with both keys the submitted anthropogenous coordinate is stored.
C4_UrbanAlias ==
    \A s \in subs :
       s.state = "committed" /\ "urban" \in DOMAIN s.body.locations =>
          LET want == AnthropogenousOf(s.body)
          IN  IF s.store = "pg"
              THEN {[lat |-> Num(l.geom.y), lng |-> Num(l.geom.x)] :
                       l \in {m \in LocationRows(s.id) : m.location_type = "anthropogenous"}}
                      = {want}
              ELSE \E c \in sb_checklists :
                      /\ c.id = s.id
                      /\ "anthropogenous" \in DOMAIN c.locations
                      /\ c.locations["anthropogenous"] = want

\* A relational submission with urban and without anthropogenous committed
C4_Witness ==
    \E s \in subs :
       /\ s.store = "pg" /\ s.state = "committed"
       /\ "urban" \in DOMAIN s.body.locations
       /\ "anthropogenous" \notin DOMAIN s.body.locations

NotFound == Error(404, "Checklist not found")

\* What a detail request is answered when its store fails
StoreFailures ==
    { Error(500, "Server error"), Error(503, "Database unavailable"),
      ErrorHint(503, "Database unavailable", "Supabase fallback failed") }

\* The headers of the store a finished reader consulted
HeadersOf(q) ==
    IF StoreOf(q) = "pg" THEN {Header(c) : c \in checklists}
    ELSE {Header(c) : c \in sb_checklists}

\* C5: a detail request returns a checklist only to its owner. For an id the
\* requester does not own the answer is the same 404 body whether the id
\* belongs to another user or to nobody (or the store's failure answer), on
\* the relational path and on the fallback path.
C5_OwnerOnly ==
    \A r \in Req :
       LET q == req[r]
           mine == {c \in HeadersOf(q) : c.id = q.id /\ c.user_id = q.user}
       IN  q.pc = "done" /\ q.route = "detail" /\ q.authed =>
              /\ q.resp.status = 200 =>
                    /\ q.resp.checklist \in mine
                    /\ \E s \in subs : s.store = StoreOf(q) /\ s.id = q.id /\ s.user = q.user
              /\ mine = {} => q.resp \in {NotFound} \cup StoreFailures
              /\ q.resp.status = 404 => q.resp = NotFound

\* The relational path answered 404 for an id that another user owns
C5_Witness ==
    \E r \in Req :
       /\ req[r].pc = "done" /\ req[r].route = "detail" /\ req[r].resp = NotFound
       /\ req[r].touched = {"pg"}
       /\ \E c \in checklists : c.id = req[r].id /\ c.user_id # req[r].user

\* The committed submissions of a user in one store
CommittedIn(store, user) ==
    {s \in subs : s.store = store /\ s.state = "committed" /\ s.user = user}

\* The committed submissions of a user
CommittedBy(user) == {s \in subs : s.state = "committed" /\ s.user = user}

\* A listing holds one row per submission of a set, newest first
Lists(rows, submissions, headers) ==
    /\ Len(rows) = Cardinality(submissions)
    /\ \A s \in submissions : \E i \in 1..Len(rows) : rows[i].id = s.id
    /\ \A i \in 1..Len(rows) :
          \E c \in headers : c.id = rows[i].id /\ c.submitted_at = rows[i].submitted_at
    /\ \A i, j \in 1..Len(rows) : i < j => rows[i].submitted_at >= rows[j].submitted_at

\* C6 as stated: a listing returns exactly the committed checklists of the
\* requesting user, all of them and no other, newest first.
C6_ListsAllCommitted ==
    \A r \in Req :
       LET q == req[r]
       IN  q.pc = "done" /\ q.route = "list" /\ q.resp.status = 200 =>
              Lists(q.resp.rows, CommittedBy(q.user),
                    {c \in HeadersOf(q) : c.user_id = q.user})

\* C6 amended: a listing returns exactly the requesting user's checklists
\* committed in the store that answers it, all of them and no other, newest
\* first.
C6_ListsOwnOfStore ==
    \A r \in Req :
       LET q == req[r]
       IN  q.pc = "done" /\ q.route = "list" /\ q.resp.status = 200 =>
              Lists(q.resp.rows, CommittedIn(StoreOf(q), q.user),
                    {c \in HeadersOf(q) : c.user_id = q.user})

\* A listing of two checklists of the requesting user
C6_Witness ==
    \E r \in Req :
       /\ req[r].pc = "done" /\ req[r].route = "list" /\ req[r].resp.status = 200
       /\ Len(req[r].resp.rows) = 2

\* The verifier refuses a token that is present
Rejected(token) ==
    token.present /\ (IF supabaseAdmin THEN token.sb # "ok" ELSE ~token.jwt)

\* C7: on the three protected routes a handler runs and a store is touched
\* only for a request whose token the verifier accepted, with the identity
\* of the token; a request without a token is answered 401, one with a
\* rejected token 403, and neither reads or writes a store.
C7_VerifierFirst ==
    \A r \in Req :
       LET q == req[r]
       IN  /\ q.pc \notin {"idle", "done"} \/ q.touched # {} \/ q.cid # 0 =>
                q.authed /\ q.token.present /\ ~Rejected(q.token)
           /\ q.authed => q.user = q.token.uid
           /\ q.pc = "done" /\ ~q.token.present =>
                q.resp = Error(401, "No token provided") /\ q.touched = {} /\ q.cid = 0
           /\ q.pc = "done" /\ Rejected(q.token) =>
                q.resp = Error(403, "Invalid token") /\ q.touched = {} /\ q.cid = 0

\* A submission without a token was answered 401
C7_Witness ==
    \E r \in Req :
       /\ req[r].pc = "done" /\ req[r].route = "submit" /\ ~req[r].token.present
       /\ req[r].resp.status = 401

\* C8: with the identity provider configured its answer alone decides: a
\* token it rejects, or whose verification throws, is answered 403 even when
\* signed with the local secret, and a token it accepts passes; the local
\* check decides only without the provider.
C8_ProviderDecides ==
    \A r \in Req :
       LET q == req[r]
       IN  q.pc # "idle" /\ q.token.present =>
              IF supabaseAdmin
              THEN /\ q.authed <=> q.token.sb = "ok"
                   /\ q.token.sb # "ok" =>
                         q.pc = "done" /\ q.resp = Error(403, "Invalid token")
              ELSE q.authed <=> q.token.jwt

\* The provider threw on a locally valid token and the request got 403
C8_Witness ==
    \E r \in Req :
       /\ supabaseAdmin /\ req[r].pc = "done"
       /\ req[r].token.sb = "throw" /\ req[r].token.jwt
       /\ req[r].resp = Error(403, "Invalid token")

\* C9: a 200 answer of the species listing is in non-increasing order of
\* observation_count, from either source and whatever field carried the count.
C9_SortedSpecies ==
    \A r \in Req :
       LET q == req[r]
           rows == q.resp.rows
       IN  q.pc = "done" /\ q.route = "species" /\ q.resp.status = 200 =>
              \A i, j \in 1..Len(rows) :
                 i < j => rows[i].observation_count >= rows[j].observation_count

\* A managed-backend table answered with three rows whose counts came under
\* different field names and are not all equal
C9_Witness ==
    \E r \in Req :
       LET q == req[r]
           rows == q.resp.rows
       IN  /\ q.pc = "done" /\ q.route = "species" /\ q.resp.status = 200
           /\ q.touched = {"sb"} /\ Len(rows) = 3
           /\ rows[1].scientific_name = "Limax maximus"
           /\ rows[1].observation_count > rows[3].observation_count

\* C10: the species listing answers 503 only when no source yields anything:
\* with the relational store at hand and species observations committed, the
\* answer is their aggregation, not 503.
C10_UnavailableOnlyWhenEmpty ==
    \A r \in Req :
       LET q == req[r]
       IN  q.pc = "done" /\ q.route = "species" /\ q.resp.status = 503
           /\ pool /\ q.error \in {"ok", "missing"} =>
              species_observations = {}

\* Grid-cell requests that were answered with a feature collection
GridAnswers ==
    {r \in Req : req[r].pc = "done" /\ req[r].route = "grid" /\ req[r].resp.status = 200}

WellAnnotated(f) ==
    /\ {"checklist_count", "has_checklist"} \subseteq DOMAIN f.properties
    /\ f.properties["checklist_count"].t = "number"
    /\ f.properties["has_checklist"] = Bool(f.properties["checklist_count"].n > 0)

\* C11: every feature of every successful GET /api/grid-cells response
\* carries properties.checklist_count and properties.has_checklist, with
\* has_checklist = (checklist_count > 0), whichever store answered and
\* whichever server file is running.
C11_HasChecklistIffCounted ==
    \A r \in GridAnswers : \A f \in Range(req[r].resp.rows) : WellAnnotated(f)

\* The store whose rows answered a grid-cell request
GridStore(q) == IF "pg" \in q.touched THEN "pg" ELSE "sb"

\* The checklists a store holds for a grid cell
StoredFor(store, cell) ==
    IF store = "sb" THEN {c \in sb_checklists : c.grid_cell_id = cell}
    ELSE {c \in checklists : c.grid_cell_id = cell}

\* C12: each feature api/index.js returns has checklist_count equal to the
\* number of checklists the answering store holds for the feature's cell,
\* also when the auxiliary checklist lookup of the managed-backend path
\* returned an error.
C12_CountsStoredChecklists ==
    \A r \in GridAnswers :
       backend = Api =>
          \A f \in Range(req[r].resp.rows) :
             /\ "checklist_count" \in DOMAIN f.properties
             /\ f.properties["checklist_count"] =
                   Num(Cardinality(StoredFor(GridStore(req[r]), String(f.id))))

\* The rows of a store's answer whose geometry can be parsed
Parseable(rows) == SelectSeq(rows, LAMBDA g : parseGeometry(g.geom) # NoGeometry)

\* C13: a grid-cell request is answered 200 or 503; a 200 carries at least
\* one feature, namely one per row of the answering store's rows whose
\* geometry parses, in their order; the relational store is asked when the
\* managed backend gave no such row and a pool is at hand; and the answer is
\* 503 exactly when no store gave such a row.
C13_NoEmptySuccess ==
    \A r \in Req :
       LET q == req[r]
           rows == q.resp.rows
           kept == Parseable(q.data)
       IN  q.pc = "done" /\ q.route = "grid" =>
              /\ q.resp.status \in {200, 503}
              /\ q.resp.status = 200 =>
                    /\ Len(rows) > 0
                    /\ Len(rows) = Len(kept)
                    /\ \A i \in 1..Len(rows) :
                          /\ rows[i].id = kept[i].id
                          /\ rows[i].geometry = parseGeometry(kept[i].geom)
              /\ (q.resp.status = 503) = (q.yield = {})
              /\ "sb" \in q.touched /\ "sb" \notin q.yield /\ "pg" \notin q.touched => ~pool

\* A store answered with two rows of which one has a geometry that does not
\* parse: the response carries the other row alone
C13_Witness ==
    \E r \in GridAnswers :
       /\ Len(req[r].data) = 2
       /\ Len(req[r].resp.rows) = 1
       /\ parseGeometry(req[r].data[1].geom) = NoGeometry

\* News requests that were answered with a list
NewsAnswers ==
    {r \in Req : req[r].pc = "done" /\ req[r].route = "news" /\ req[r].resp.status = 200}

Dated(item) == item.published_date # Null

\* C14: a news listing has at most 50 items, in descending publish-date
\* order, and they are the most recently published rows of the answering
\* store: no returned item is older than a row of the store that was left
\* out.
C14_NewestFifty ==
    \A r \in NewsAnswers :
       LET rows == req[r].resp.rows
           table == req[r].data
           returned == {rows[i].id : i \in 1..Len(rows)}
       IN  /\ Len(rows) <= NewsLimit
           /\ \A i, j \in 1..Len(rows) :
                 i < j /\ Dated(rows[i]) /\ Dated(rows[j]) =>
                    rows[i].published_date.n >= rows[j].published_date.n
           /\ \A i \in 1..Len(rows), k \in 1..Len(table) :
                 table[k].id \notin returned /\ Dated(rows[i]) /\ Dated(table[k]) =>
                    rows[i].published_date.n >= table[k].published_date.n

\* C15: every request is eventually answered, and when a store call of its
\* handler threw or rejected the answer is an error status with a JSON body
\* that has an error field; no request is left without a response.
C15_EveryRequestAnswered ==
    /\ \A r \in Req : (req[r].pc # "idle") ~> (req[r].pc = "done")
    /\ [](\A r \in Req :
             req[r].pc = "done" /\ req[r].route = "submit" /\ req[r].error # "" =>
                req[r].resp.status >= 400 /\ req[r].resp.error # "")

\* C16: with the debug flag off no response carries internal error detail:
\* no detail, no stack and no store error message, whatever the route and
\* the status.
C16_NoInternalDetail ==
    \A r \in Req :
       req[r].pc = "done" /\ ~DEBUG_API_ERRORS =>
          req[r].resp.detail = "" /\ req[r].resp.stack = ""

\* C17: a response to a request whose Origin header is not on the allow-list
\* carries no Access-Control-Allow-Origin header, also when the error
\* handler produced it; for an allow-listed origin the header is that origin.
C17_AllowOriginOnlyForAllowed ==
    \A r \in Req :
       LET q == req[r]
       IN  q.pc = "done" =>
              /\ q.origin # NoOrigin /\ ~IsAllowed(q.origin) => q.allowOrigin = ""
              /\ IsAllowed(q.origin) => q.allowOrigin = q.origin

\* The stores hold no row of the checklist id a request was given
NothingStored(q) ==
    /\ HeaderRows(q.cid) = {} /\ LocationRows(q.cid) = {} /\ SpeciesRows(q.cid) = {}
    /\ "sb" \in q.touched => ~\E c \in sb_checklists : c.id = q.cid

\* C18: the outcome of a submission follows a fixed precedence: refused by
\* the verifier or without a user id first (401, or 403 for a rejected
\* token), else 400 for a body the contract refuses, else 503 when no store
\* could be used, else 500 when the transaction failed, else 200 with the
\* new id; and every outcome but 200 leaves no row behind.
C18_OutcomePrecedence ==
    \A r \in Req :
       LET q == req[r]
           status == q.resp.status
       IN  q.pc = "done" /\ q.route = "submit" =>
              /\ IF ~q.authed \/ q.user = "" THEN status \in {401, 403}
                 ELSE IF InvalidBody(q.body) THEN status = 400
                 ELSE IF q.cid = 0 /\ q.error = "" THEN status = 503
                 ELSE IF q.error # "" THEN status = 500
                 ELSE status = 200 /\ q.resp.checklistId = q.cid
              /\ status # 200 => NothingStored(q)

\* Positions of a submission between pool.connect() and the release
TxPcs == {"begin", "insert_checklist", "insert_location", "insert_species", "commit",
          "rollback"}

\* C19: the relational store's availability only moves from available to
\* unavailable: once the startup check has failed or the pool has emitted
\* an error after it, this stays so, the pool handle is never set again, and
\* no request that starts afterwards asks the relational store for a
\* connection.
C19_RelationalStaysDown ==
    /\ [][(RelationalDown => RelationalDown') /\ (~pool => ~pool')]_vars
    /\ [](\A r \in Req :
             req[r].route = "submit" /\ req[r].down =>
                req[r].pc \notin TxPcs \cup {"connect"} /\ "pg" \notin req[r].touched)

\* The clients that are out of the pool
Borrowed == {r \in Req : tx[r].client}

\* C20: a submission issues its transaction statements while it holds the
\* one client it borrowed, and gives the client back exactly once whatever
\* the outcome (commit, failed insert, failed COMMIT, failed ROLLBACK); with
\* no submission in flight no client is out of the pool.
C20_ReleasedExactlyOnce ==
    /\ \A r \in Req :
          LET q == req[r]
          IN  /\ (q.pc \in TxPcs) = tx[r].client
              /\ tx[r].open => tx[r].client
              /\ q.pc \in TxPcs => q.released = 0
              /\ q.route = "submit" /\ q.pc \in {"done", "unanswered"} =>
                    q.released = IF "pg" \in q.touched THEN 1 ELSE 0
    /\ (\A r \in Req : req[r].pc \in {"idle", "done", "unanswered"}) => Borrowed = {}

\* A submission to tandonia_backend.js whose insert and whose ROLLBACK both
\* failed: the client was given back once and none is out of the pool
C20_Witness ==
    \E r \in Req :
       /\ req[r].error = "ROLLBACK failed"
       /\ req[r].released = 1
       /\ "pg" \in req[r].touched
       /\ Borrowed = {}

\* The submissions that hold a checklist id of the relational store and are
\* still in flight
InFlight == {r \in Req : req[r].pc \in TxPcs /\ req[r].cid # 0}

\* C21: concurrent submissions are independent, also of one user for one
\* grid cell: no two submissions share a checklist id, every location and
\* species row, committed or held in a transaction, carries the id of the
\* submission that sent it, a submission in flight has its next statement
\* ready whatever the others do, and a submission answered 200 is committed
\* with all of its children.
C21_IndependentSubmissions ==
    /\ \A s, t \in subs : s.store = t.store /\ s.id = t.id => s = t
    /\ \A r, o \in InFlight : req[r].cid = req[o].cid => r = o
    /\ \A r \in Req :
          /\ \A c \in tx[r].checklists : c.id = req[r].cid
          /\ \A l \in tx[r].locations :
                /\ l.checklist_id = req[r].cid
                /\ l.location_type \in DOMAIN normalizedLocations(req[r].body.locations)
          /\ \A o \in tx[r].species :
                /\ o.checklist_id = req[r].cid
                /\ \E e \in Range(req[r].body.species) : e.name = o.species_name
          /\ Delivered /\ req[r].pc \in TxPcs \cup {"connect", "sb_insert"} =>
                ENABLED SubmitStep(r)
          /\ req[r].pc = "done" /\ req[r].route = "submit" /\ req[r].resp.status = 200
             /\ "pg" \in req[r].touched =>
                \E s \in subs :
                   /\ s.store = "pg" /\ s.id = req[r].cid /\ s.state = "committed"
                   /\ s.user = req[r].user /\ s.body = req[r].body
                   /\ HeaderRows(s.id) # {} /\ ChildrenComplete(s)
    /\ \A l \in checklist_locations :
          \E s \in subs : s.store = "pg" /\ s.id = l.checklist_id /\ ChildrenComplete(s)
    /\ \A o \in species_observations :
          \E s \in subs : s.store = "pg" /\ s.id = o.checklist_id /\ ChildrenComplete(s)

\* Two submissions of one user for one grid cell overlapped: the one that
\* got the later id is answered 200 while the other, with rows of its own in
\* its transaction, has not committed yet
C21_Witness ==
    \E r, o \in Req :
       /\ r # o
       /\ req[r].user = req[o].user /\ req[r].body = req[o].body
       /\ req[r].pc = "done" /\ req[r].resp.status = 200 /\ req[r].cid = 2
       /\ req[o].pc = "commit" /\ req[o].cid = 1 /\ tx[o].locations # {}

\* The users of an email
UsersOf(email) == {u \in users : u.email = email}

\* C23: the email of a user is unique: the users table never holds two rows
\* of one email, whatever the interleaving of the registrations; and a
\* registration for an email that was registered when it arrived creates no
\* row and is answered 400 (or 500/503 when the store fails).
C23_EmailUnique ==
    /\ \A u, v \in users : u.email = v.email => u = v
    /\ \A r \in Req :
          req[r].pc = "done" /\ req[r].route = "register" /\ req[r].known =>
             req[r].resp.status \in {400, 500, 503}

\* Routes that only read
ReadRoutes == {"list", "detail", "grid", "species", "news", "health"}

\* The route of the request that slot r serves in a step
RouteOf(r) == IF req[r].pc = "idle" THEN req'[r].route ELSE req[r].route

\* C22: a committed checklist stays as it is: in every step every committed
\* header and managed-backend record is kept, no location or species row of a
\* committed checklist is removed or added, and a step of a read request
\* (list, detail, grid cells, species, news, health) changes no store.
C22_CommittedNeverChanged ==
    [][/\ checklists \subseteq checklists'
       /\ sb_checklists \subseteq sb_checklists'
       /\ \A c \in checklists :
             /\ {l \in checklist_locations' : l.checklist_id = c.id} = LocationRows(c.id)
             /\ {o \in species_observations' : o.checklist_id = c.id} = SpeciesRows(c.id)
       /\ (\A r \in Req : req'[r] # req[r] => RouteOf(r) \in ReadRoutes) =>
             UNCHANGED <<relational, managed, accounts, checklists_id_seq, tx>>
      ]_vars

\* After a checklist with children was committed, a second submission has
\* committed too and a read request has been answered 200
C22_Witness ==
    /\ Cardinality(checklists) = 2
    /\ checklist_locations # {}
    /\ species_observations # {}
    /\ \E r \in Req :
          req[r].pc = "done" /\ req[r].route \in ReadRoutes /\ req[r].resp.status = 200

\* The counts a listing is to report for a submission: its habitat
\* locations, and its species entries with a positive count
CountsAsSubmitted(row, body) ==
    /\ row.location_count = Cardinality(SubmittedLocations(body))
    /\ row.species_count = Cardinality(SubmittedSpecies(body))

\* C24: a listing reports for each checklist the number of its habitat
\* locations and the number of its species entries with count > 0, the same
\* whether the relational store or the managed-backend record answers.
C24_SameCountsFromEitherStore ==
    \A r \in Req :
       LET q == req[r]
       IN  q.pc = "done" /\ q.route = "list" /\ q.resp.status = 200 =>
              \A i \in 1..Len(q.resp.rows) :
                 \E s \in subs :
                    /\ s.store = StoreOf(q) /\ s.id = q.resp.rows[i].id
                    /\ CountsAsSubmitted(q.resp.rows[i], s.body)

\* A coordinate with both lat and lng
CoordinatePair(c) == c.lat.t # "undefined" /\ c.lng.t # "undefined"

\* The committed submission behind a header of the relational store
WrittenBy(c) ==
    {s \in subs : s.store \in {"pg", "rpc"} /\ s.id = c.id /\ s.state = "committed"}

Reproject(lat, lng) == Transform31370(Wgs84(lng, lat))

\* C27: every location row of the relational store holds the reprojection
\* of the lat/lng pair that was submitted for its habitat, not the submitted
\* pair itself under the identifier of the projected system.
C27_StoredPointIsReprojected ==
    \A l \in checklist_locations :
       \A s \in subs :
          s.store \in {"pg", "rpc"} /\ s.id = l.checklist_id /\ s.state = "committed" =>
             LET c == HabitatCoordinate(s.body, l.location_type)
             IN  l.geom = Reproject(c.lat.n, c.lng.n)

\* The ids a row of grid_cells may have, as the text a checklist names
GridCellKeys == {String(g.id) : g \in GridRows}

\* C26: every stored checklist has one owning user and names the id of an
\* existing grid cell; a submission that names no existing grid cell is
\* never stored.
C26_OwnedAndInExistingCell ==
    \A c \in checklists \cup {Header(x) : x \in sb_checklists} :
       /\ c.user_id \in Users
       /\ c.grid_cell_id \in GridCellKeys

\* What getChecklist of the submitting user would find for the id of request r
VisibleToOwner(r) == SelectChecklist(req[r].cid, req[r].user) # {}

\* C28: the relational path answers 200 with a checklist id only after
\* COMMIT succeeded, so the checklist is there for a read of its owner that
\* follows; and when COMMIT fails the request is answered 500 and the
\* checklist never becomes visible.
C28_SuccessOnlyAfterCommit ==
    /\ [](\A r \in Req :
             /\ req[r].pc = "done" /\ req[r].route = "submit" /\ "pg" \in req[r].touched
                /\ req[r].resp.status = 200 =>
                   req[r].resp.checklistId = req[r].cid /\ VisibleToOwner(r)
             /\ req[r].route = "submit" /\ req[r].cid # 0 /\ req[r].error # "" =>
                   HeaderRows(req[r].cid) = {})
    /\ \A r \in Req :
          (req[r].pc = "rollback" /\ req[r].error = "COMMIT failed")
             ~> (req[r].pc = "done" /\ req[r].resp.status = 500)

\* C30: the import handler answers every request, whatever the chunk
\* parameter and the feature list, and when it answers 200 every feature of
\* the file has been handed to the import function once, in the file's order.
C30_ImportTerminatesAndSendsAll ==
    /\ \A r \in Req : (req[r].route = "import" /\ req[r].pc # "done") ~> (req[r].pc = "done")
    /\ [](\A r \in Req :
             req[r].pc = "done" /\ req[r].route = "import" /\ req[r].resp.status = 200 =>
                req[r].loop.sent = req[r].data)


\* C29: when the pool check fails and sets pool to null while requests are
\* between their awaited store calls, every request in flight is still
\* answered, with a status, none is left without a response by a
\* dereference of the null pool, and no checklist is partially written.
C29_ProbeFailureInFlight ==
    /\ \A r \in Req : (req[r].pc \notin {"idle", "done"}) ~> (req[r].pc = "done")
    /\ [](\A r \in Req :
             /\ req[r].pc # "unanswered"
             /\ req[r].pc = "done" => req[r].resp.status # 0)
    /\ [](\A s \in subs :
             s.store = "pg" =>
                IF s.state = "committed" THEN ChildrenComplete(s)
                ELSE HeaderRows(s.id) = {} /\ LocationRows(s.id) = {}
                     /\ SpeciesRows(s.id) = {})

C29_Witness ==
    /\ ~pool /\ probe = "failed"
    /\ req["r1"].pc \in TxPcs /\ req["r1"].cid # 0
    /\ req["r2"].pc = "done" /\ req["r2"].route \in {"detail", "register"}
    /\ req["r2"].resp.status = 500 /\ "pg" \in req["r2"].touched

=============================================================================
